---- MODULE Spec2Model ----
(***************************************************************************)
(* A model of the legion limit order book (src/src/orderbook.rs,           *)
(* src/src/arena.rs, src/src/models.rs).  The variables are the fields of  *)
(* OrderBook; every action is one call of a public method.  The unsigned   *)
(* 64-bit price axis is cut down to 0..U64_MAX so that both sentinels of   *)
(* the best-price cache (0 and u64::MAX) are prices a command can carry,   *)
(* as they are in the program: the prices below U64_MAX are small prices,  *)
(* taken as they stand, and U64_MAX stands for 2^64 - 1.  Quantities and   *)
(* ids are small numbers.  The one computation that leaves the word with   *)
(* such inputs, the sum of price * qty in the stats step, is computed with *)
(* its width.                                                              *)
(***************************************************************************)
EXTENDS Integers, Sequences, FiniteSets, TLC

\* ---- bounds of the model ------------------------------------------------
MaxId == 3
MaxQty == 2
MaxPrice == 2
MaxLevels == 2

\* std::u64::MAX on the price axis: the largest price there is.
U64_MAX == MaxPrice

Ids == 0..MaxId
Qtys == 0..MaxQty
Prices == 0..U64_MAX
UserIds == {1}
Sides == {"Bid", "Ask"}

\* Option::None for an Option<u64> (limit_price) and for a missing price.
NoneVal == -1

INVALID_ORDER_NUMBER == "INVALID_ORDER_NUMBER"
LIQUIDITY_NOT_AVAILABLE == "LIQUIDITY_NOT_AVAILABLE"

VARIABLES
    last_processed_order_id,
    last_trade,
    traded_volume,
    min_ask,
    max_bid,
    asks,
    bids,
    arena,
    track_stats,
    panicked,
    last_accepted,
    overflow_checks,
    input,
    parsed

bookvars == <<last_processed_order_id, last_trade, traded_volume, min_ask,
              max_bid, asks, bids, arena>>
vars == <<last_processed_order_id, last_trade, traded_volume, min_ask,
          max_bid, asks, bids, arena, track_stats, panicked, last_accepted,
          overflow_checks, input, parsed>>

\* ---- small helpers ------------------------------------------------------
Min(S) == CHOOSE x \in S : \A y \in S : x <= y
Max(S) == CHOOSE x \in S : \A y \in S : x >= y

\* BTreeMap::iter(): the keys in ascending order.
RECURSIVE Iter(_)
Iter(S) == IF S = {} THEN <<>> ELSE <<Min(S)>> \o Iter(S \ {Min(S)})

\* BTreeMap::iter().rev(): the keys in descending order.
RECURSIVE IterRev(_)
IterRev(S) == IF S = {} THEN <<>> ELSE <<Max(S)>> \o IterRev(S \ {Max(S)})

\* impl Not for Side
Not(side) == IF side = "Bid" THEN "Ask" ELSE "Bid"

\* Vec::remove(i), 1-based.
VecRemove(q, i) == SubSeq(q, 1, i - 1) \o SubSeq(q, i + 1, Len(q))

\* iter().position(|i| *i == id), 1-based; 0 stands for None.
Position(q, id) ==
    IF \E i \in 1..Len(q) : q[i] = id
    THEN Min({i \in 1..Len(q) : q[i] = id})
    ELSE 0

\* slice::binary_search over [left, right) (0-based bounds); returns the
\* 1-based index of x, 0 for Err.
RECURSIVE BinarySearchLoop(_, _, _, _)
BinarySearchLoop(q, x, left, right) ==
    IF left >= right THEN 0
    ELSE LET mid == left + ((right - left) \div 2) IN
         IF q[mid + 1] < x THEN BinarySearchLoop(q, x, mid + 1, right)
         ELSE IF q[mid + 1] > x THEN BinarySearchLoop(q, x, left, mid)
         ELSE mid + 1

binary_search(q, x) == BinarySearchLoop(q, x, 0, Len(q))

\* BTreeMap::entry(price).or_insert(Vec::new()): the map with the key present.
EntryOrInsert(m, price) ==
    IF price \in DOMAIN m THEN m
    ELSE [p \in DOMAIN m \cup {price} |-> IF p = price THEN <<>> ELSE m[p]]

\* Faulty variant of EntryPush: the id is put at the head of the queue.
EntryPush_Front(m, price, id) ==
    LET e == EntryOrInsert(m, price) IN [e EXCEPT ![price] = <<id>> \o @]

\* entry(price).or_insert_with(..).push(id)
EntryPush(m, price, id) ==
    LET e == EntryOrInsert(m, price) IN [e EXCEPT ![price] = Append(@, id)]

\* ---- the order directory (arena.rs) --------------------------------------
\* The entry is a LimitOrder {user_id, id, qty, price} (models.rs), filled as
\* the call in OrderBook::limit passes it: insert(id, user_id, price, qty).
ArenaInsert(a, id, user_id, price, qty) ==
    [i \in DOMAIN a \cup {id} |->
        IF i = id THEN [user_id |-> user_id, id |-> id, qty |-> qty, price |-> price]
        ELSE a[i]]

ArenaDelete(a, id) == [i \in DOMAIN a \ {id} |-> a[i]]

\* ---- values -------------------------------------------------------------
NoTrade ==
    [some |-> FALSE, total_qty |-> 0, notional |-> [top |-> 0, low |-> 0],
     last_qty |-> 0, last_price |-> 0]

EmptyMap == [p \in {} |-> <<>>]

NoEvent == [type |-> "none", id |-> 0, message |-> "", filled_qty |-> 0, fills |-> <<>>]

Rejected(id, message) ==
    [type |-> "Rejected", id |-> id, message |-> message, filled_qty |-> 0, fills |-> <<>>]
Open(id) == [type |-> "Open", id |-> id, message |-> "", filled_qty |-> 0, fills |-> <<>>]
Cancelled(id) == [type |-> "Cancelled", id |-> id, message |-> "", filled_qty |-> 0, fills |-> <<>>]
PartiallyFilled(id, filled_qty, fills) ==
    [type |-> "PartiallyFilled", id |-> id, message |-> "", filled_qty |-> filled_qty, fills |-> fills]
Filled(id, filled_qty, fills) ==
    [type |-> "Filled", id |-> id, message |-> "", filled_qty |-> filled_qty, fills |-> fills]

\* The command variants of OrderType.
MarketCmd(id, user_id, side, qty) ==
    [type |-> "market", id |-> id, user_id |-> user_id, side |-> side,
     qty |-> qty, price |-> NoneVal]
LimitCmd(id, user_id, side, qty, price) ==
    [type |-> "limit", id |-> id, user_id |-> user_id, side |-> side,
     qty |-> qty, price |-> price]
IOCCmd(id, user_id, side, qty, price) ==
    [type |-> "ioc", id |-> id, user_id |-> user_id, side |-> side,
     qty |-> qty, price |-> price]
FOKCmd(id, user_id, side, qty, price) ==
    [type |-> "fok", id |-> id, user_id |-> user_id, side |-> side,
     qty |-> qty, price |-> price]
CancelCmd(id) ==
    [type |-> "cancel", id |-> id, user_id |-> 0, side |-> "Bid",
     qty |-> 0, price |-> NoneVal]

\* The book as one value: what the methods read and write.
Book ==
    [last_processed_order_id |-> last_processed_order_id,
     last_trade |-> last_trade,
     traded_volume |-> traded_volume,
     min_ask |-> min_ask,
     max_bid |-> max_bid,
     asks |-> asks,
     bids |-> bids,
     arena |-> arena]

\* ---- best-price cache ---------------------------------------------------
update_min_ask(ob) ==
    LET cur_asks == {p \in DOMAIN ob.asks : ob.asks[p] # <<>>} IN
    [ob EXCEPT !.min_ask = IF cur_asks = {} THEN U64_MAX ELSE Min(cur_asks)]

\* Faulty variant of update_max_bid: the cached price is left as it is.
update_max_bid_Stale(ob) == ob

update_max_bid(ob) ==
    LET cur_bids == {p \in DOMAIN ob.bids : ob.bids[p] # <<>>} IN
    [ob EXCEPT !.max_bid = IF cur_bids = {} THEN 0 ELSE Max(cur_bids)]

\* ---- spread ----------------------------------------------------------------
\* A price as a 64-bit word, written top * (2^64 - 1) + low.
Word(price) ==
    IF price = U64_MAX THEN [top |-> 1, low |-> 0] ELSE [top |-> 0, low |-> price]

\* a - b of two words where a >= b, and a - b + 2^64, what the wrapping
\* subtraction gives, where a < b.
WordDifference(a, b) == [top |-> a.top - b.top, low |-> a.low - b.low]
WrappingDifference(a, b) == [top |-> a.top - b.top + 1, low |-> a.low - b.low + 1]

\* OrderBook::spread: self.min_ask - self.max_bid in u64.  Below zero the
\* subtraction panics in a build with overflow checks and wraps in one
\* without.
spread(ob) ==
    IF ob.min_ask >= ob.max_bid
    THEN [panicked |-> FALSE, underflow |-> FALSE,
          value |-> WordDifference(Word(ob.min_ask), Word(ob.max_bid))]
    ELSE IF overflow_checks
    THEN [panicked |-> TRUE, underflow |-> TRUE, value |-> Word(0)]
    ELSE [panicked |-> FALSE, underflow |-> TRUE,
          value |-> WrappingDifference(Word(ob.min_ask), Word(ob.max_bid))]

\* ---- depth snapshot ------------------------------------------------------
BookLevel(price, qty, orders) == [price |-> price, qty |-> qty, orders |-> orders]

\* for idx in queue { qty += self.arena[*idx].qty }
RECURSIVE LevelQty(_, _, _)
\* Faulty variant of LevelQty: only the head of the queue is counted.
LevelQty_HeadOnly(a, queue, i) ==
    IF i > Len(queue) THEN 0 ELSE a[queue[i]].qty

LevelQty(a, queue, i) ==
    IF i > Len(queue) THEN 0 ELSE a[queue[i]].qty + LevelQty(a, queue, i + 1)

LevelOrders(a, queue, include_orders) ==
    IF include_orders THEN [i \in 1..Len(queue) |-> a[queue[i]]] ELSE <<>>

\* One side of the snapshot from the k-th key (ascending) on; a level whose
\* quantity is 0 is left out.
RECURSIVE DepthSide(_, _, _, _, _)
DepthSide(a, m, keys, k, include_orders) ==
    IF k > Len(keys) THEN <<>>
    ELSE (IF LevelQty(a, m[keys[k]], 1) > 0
          THEN <<BookLevel(keys[k], LevelQty(a, m[keys[k]], 1),
                           LevelOrders(a, m[keys[k]], include_orders))>>
          ELSE <<>>)
         \o DepthSide(a, m, keys, k + 1, include_orders)

\* BookDepth { levels, asks, bids }: both sides are walked with iter(), in
\* ascending price order, and levels only sizes the vectors.
depth(ob, levels, include_orders) ==
    [levels |-> levels,
     asks |-> DepthSide(ob.arena, ob.asks, Iter(DOMAIN ob.asks), 1, include_orders),
     bids |-> DepthSide(ob.arena, ob.bids, Iter(DOMAIN ob.bids), 1, include_orders)]

\* ---- the match loop -----------------------------------------------------
\* Faulty variant of FillMetadata: the two ids change places.
FillMetadata_SwapIds(taker_id, maker_id, qty, price, taker_side, total_fill) ==
    [taker_id |-> maker_id, maker_id |-> taker_id, qty |-> qty, price |-> price,
     taker_side |-> taker_side, total_fill |-> total_fill]

\* The fields carry the names of the struct in models.rs (taker_id,
\* maker_id); orderbook.rs writes them order_1 and order_2.
FillMetadata(taker_id, maker_id, qty, price, taker_side, total_fill) ==
    [taker_id |-> taker_id, maker_id |-> maker_id, qty |-> qty, price |-> price,
     taker_side |-> taker_side, total_fill |-> total_fill]

\* The loop of simulate_queue_fills from queue position i on; head_order is
\* the resting order at that position.
RECURSIVE SimulateLoop(_, _, _, _, _, _, _, _)
\* Faulty variant of SimulateStep: an exact match (qty_to_fill = maker's
\* quantity) is taken for a partial fill.
SimulateStep_ExactIsPartial(a, opposite_orders, i, qty_to_fill, filled_qty, id, side, fills, head_order) ==
    IF head_order.qty = 0
    THEN SimulateLoop(a, opposite_orders, i + 1, qty_to_fill, filled_qty, id, side, fills)
    ELSE IF qty_to_fill > head_order.qty
    THEN SimulateLoop(a, opposite_orders, i + 1, qty_to_fill - head_order.qty,
                      filled_qty + head_order.qty, id, side,
                      Append(fills, FillMetadata(id, head_order.id, head_order.qty,
                                                 head_order.price, side, TRUE)))
    ELSE SimulateLoop(a, opposite_orders, i + 1, 0,
                      filled_qty + qty_to_fill, id, side,
                      Append(fills, FillMetadata(id, head_order.id, qty_to_fill,
                                                 head_order.price, side, FALSE)))

\* Faulty variant of SimulateStep: a maker taken whole is not flagged as a
\* total fill.
SimulateStep_NeverTotal(a, opposite_orders, i, qty_to_fill, filled_qty, id, side, fills, head_order) ==
    IF head_order.qty = 0
    THEN SimulateLoop(a, opposite_orders, i + 1, qty_to_fill, filled_qty, id, side, fills)
    ELSE IF qty_to_fill >= head_order.qty
    THEN SimulateLoop(a, opposite_orders, i + 1, qty_to_fill - head_order.qty,
                      filled_qty + head_order.qty, id, side,
                      Append(fills, FillMetadata(id, head_order.id, head_order.qty,
                                                 head_order.price, side, FALSE)))
    ELSE SimulateLoop(a, opposite_orders, i + 1, 0,
                      filled_qty + qty_to_fill, id, side,
                      Append(fills, FillMetadata(id, head_order.id, qty_to_fill,
                                                 head_order.price, side, FALSE)))

SimulateStep(a, opposite_orders, i, qty_to_fill, filled_qty, id, side, fills, head_order) ==
    IF head_order.qty = 0
    THEN SimulateLoop(a, opposite_orders, i + 1, qty_to_fill, filled_qty, id, side, fills)
    ELSE IF qty_to_fill >= head_order.qty
    THEN SimulateLoop(a, opposite_orders, i + 1, qty_to_fill - head_order.qty,
                      filled_qty + head_order.qty, id, side,
                      Append(fills, FillMetadata(id, head_order.id, head_order.qty,
                                                 head_order.price, side, TRUE)))
    ELSE SimulateLoop(a, opposite_orders, i + 1, 0,
                      filled_qty + qty_to_fill, id, side,
                      Append(fills, FillMetadata(id, head_order.id, qty_to_fill,
                                                 head_order.price, side, FALSE)))

SimulateLoop(a, opposite_orders, i, qty_to_fill, filled_qty, id, side, fills) ==
    IF i > Len(opposite_orders) \/ qty_to_fill = 0
    THEN [filled_qty |-> filled_qty, fills |-> fills]
    ELSE SimulateStep(a, opposite_orders, i, qty_to_fill, filled_qty, id, side, fills,
                      a[opposite_orders[i]])

\* Faulty variant of simulate_queue_fills: the walk starts behind the head.
simulate_queue_fills_SkipHead(a, opposite_orders, remaining_qty, id, side, fills) ==
    SimulateLoop(a, opposite_orders, 2, remaining_qty, 0, id, side, fills)

simulate_queue_fills(a, opposite_orders, remaining_qty, id, side, fills) ==
    SimulateLoop(a, opposite_orders, 1, remaining_qty, 0, id, side, fills)

\* The loop of match_with_asks from the k-th ask level (ascending) on.
RECURSIVE MatchAsksLoop(_, _, _, _, _, _, _)
\* The end of one iteration: r is what simulate_queue_fills returned.
\* Faulty variant of MatchAsksNext: the walk does not move on to the next
\* level.
MatchAsksNext_Revisits(ob, keys, k, remaining_qty, id, limit_price, r) ==
    MatchAsksLoop(ob, keys, k, remaining_qty - r.filled_qty, id, r.fills, limit_price)

MatchAsksNext(ob, keys, k, remaining_qty, id, limit_price, r) ==
    MatchAsksLoop(ob, keys, k + 1, remaining_qty - r.filled_qty, id, r.fills, limit_price)

\* Faulty variant of MatchAsksLoop: the cap test stops at a level priced
\* exactly at the limit (lp <= ask_price instead of lp < ask_price).
MatchAsksLoop_CapExclusive(ob, keys, k, remaining_qty, id, fills, limit_price) ==
    IF k > Len(keys)
    THEN [remaining_qty |-> remaining_qty, fills |-> fills]
    ELSE IF ob.asks[keys[k]] = <<>>
    THEN MatchAsksLoop(ob, keys, k + 1, remaining_qty, id, fills, limit_price)
    ELSE IF limit_price # NoneVal /\ limit_price <= keys[k]
    THEN [remaining_qty |-> remaining_qty, fills |-> fills]
    ELSE IF remaining_qty = 0
    THEN [remaining_qty |-> remaining_qty, fills |-> fills]
    ELSE MatchAsksNext(ob, keys, k, remaining_qty, id, limit_price,
                       simulate_queue_fills(ob.arena, ob.asks[keys[k]], remaining_qty,
                                            id, "Bid", fills))

MatchAsksLoop(ob, keys, k, remaining_qty, id, fills, limit_price) ==
    IF k > Len(keys)
    THEN [remaining_qty |-> remaining_qty, fills |-> fills]
    ELSE IF ob.asks[keys[k]] = <<>>
    THEN MatchAsksLoop(ob, keys, k + 1, remaining_qty, id, fills, limit_price)
    ELSE IF limit_price # NoneVal /\ limit_price < keys[k]
    THEN [remaining_qty |-> remaining_qty, fills |-> fills]
    ELSE IF remaining_qty = 0
    THEN [remaining_qty |-> remaining_qty, fills |-> fills]
    ELSE MatchAsksNext(ob, keys, k, remaining_qty, id, limit_price,
                       simulate_queue_fills(ob.arena, ob.asks[keys[k]], remaining_qty,
                                            id, "Bid", fills))

\* Faulty variant of match_with_asks: the limit price is not passed on.
match_with_asks_NoCap(ob, id, qty, fills, limit_price) ==
    MatchAsksLoop(ob, Iter(DOMAIN ob.asks), 1, qty, id, fills, NoneVal)

match_with_asks(ob, id, qty, fills, limit_price) ==
    MatchAsksLoop(ob, Iter(DOMAIN ob.asks), 1, qty, id, fills, limit_price)

\* The loop of match_with_bids from the k-th bid level (descending) on.
RECURSIVE MatchBidsLoop(_, _, _, _, _, _, _)
\* Faulty variant of MatchBidsNext: the walk ends after the first level that
\* held an order.
MatchBidsNext_StopsAfterLevel(ob, keys, k, remaining_qty, id, limit_price, r) ==
    [remaining_qty |-> remaining_qty - r.filled_qty, fills |-> r.fills]

MatchBidsNext(ob, keys, k, remaining_qty, id, limit_price, r) ==
    MatchBidsLoop(ob, keys, k + 1, remaining_qty - r.filled_qty, id, r.fills, limit_price)

MatchBidsLoop(ob, keys, k, remaining_qty, id, fills, limit_price) ==
    IF k > Len(keys)
    THEN [remaining_qty |-> remaining_qty, fills |-> fills]
    ELSE IF ob.bids[keys[k]] = <<>>
    THEN MatchBidsLoop(ob, keys, k + 1, remaining_qty, id, fills, limit_price)
    ELSE IF limit_price # NoneVal /\ limit_price > keys[k]
    THEN [remaining_qty |-> remaining_qty, fills |-> fills]
    ELSE IF remaining_qty = 0
    THEN [remaining_qty |-> remaining_qty, fills |-> fills]
    ELSE MatchBidsNext(ob, keys, k, remaining_qty, id, limit_price,
                       simulate_queue_fills(ob.arena, ob.bids[keys[k]], remaining_qty,
                                            id, "Ask", fills))

\* Faulty variant of match_with_bids: the levels are walked without rev().
match_with_bids_NoRev(ob, id, qty, fills, limit_price) ==
    MatchBidsLoop(ob, Iter(DOMAIN ob.bids), 1, qty, id, fills, limit_price)

match_with_bids(ob, id, qty, fills, limit_price) ==
    MatchBidsLoop(ob, IterRev(DOMAIN ob.bids), 1, qty, id, fills, limit_price)

\* The match arm of market() and limit(): the side picks the opposing book.
MatchOpposite(ob, id, side, qty, limit_price) ==
    IF side = "Bid"
    THEN match_with_asks(ob, id, qty, <<>>, limit_price)
    ELSE match_with_bids(ob, id, qty, <<>>, limit_price)

\* ---- finalisation -------------------------------------------------------
\* The maker's queue after one fill: entry is the queue at the fill's price,
\* index what binary_search returned.
FinalizeQueue(entry, index, remove_maker_order) ==
    IF remove_maker_order /\ index # 0 THEN VecRemove(entry, index) ELSE entry

\* Faulty variant of FinalizeLevels: a queue left empty is dropped from the
\* map together with its price key.
FinalizeLevels_DropsEmpty(levels, fill) ==
    IF FinalizeQueue(levels[fill.price], binary_search(levels[fill.price], fill.maker_id),
                     fill.total_fill) = <<>>
    THEN [p \in DOMAIN levels \ {fill.price} |-> levels[p]]
    ELSE [levels EXCEPT ![fill.price] =
            FinalizeQueue(@, binary_search(@, fill.maker_id), fill.total_fill)]

FinalizeLevels(levels, fill) ==
    [levels EXCEPT ![fill.price] =
        FinalizeQueue(@, binary_search(@, fill.maker_id), fill.total_fill)]

\* Faulty variant of FinalizeArena: a totally filled maker is decremented
\* but never deleted from the directory.
FinalizeArena_NoDelete(a, fill) ==
    [a EXCEPT ![fill.maker_id].qty = @ - fill.qty]

\* Faulty variant of FinalizeArena: a partly filled maker keeps the quantity
\* it had.
FinalizeArena_NoDecrement(a, fill) ==
    IF fill.total_fill THEN ArenaDelete(a, fill.maker_id) ELSE a

FinalizeArena(a, fill) ==
    IF fill.total_fill
    THEN ArenaDelete(a, fill.maker_id)
    ELSE [a EXCEPT ![fill.maker_id].qty = @ - fill.qty]

\* The closure body of finalize_execution: one fill applied to the maker.
FinalizeFill(ob, fill) ==
    IF Not(fill.taker_side) = "Bid"
    THEN [ob EXCEPT !.bids = FinalizeLevels(EntryOrInsert(@, fill.price), fill),
                    !.arena = FinalizeArena(@, fill)]
    ELSE [ob EXCEPT !.asks = FinalizeLevels(EntryOrInsert(@, fill.price), fill),
                    !.arena = FinalizeArena(@, fill)]

RECURSIVE FinalizeLoop(_, _, _)
FinalizeLoop(ob, fills, i) ==
    IF i > Len(fills) THEN ob ELSE FinalizeLoop(FinalizeFill(ob, fills[i]), fills, i + 1)

\* Faulty variant of finalize_execution: min_ask is not recomputed.
finalize_execution_StaleMinAsk(ob, fills) ==
    update_max_bid(FinalizeLoop(ob, fills, 1))

finalize_execution(ob, fills) ==
    update_min_ask(update_max_bid(FinalizeLoop(ob, fills, 1)))

\* ---- cancel -------------------------------------------------------------
\* if let Some(queue) = side.get_mut(&price) { if let Some(i) = position { remove } }
\* Faulty variant of CancelFromSide: the head of the queue is taken out,
\* whichever order was asked for.
CancelFromSide_PopFront(m, price, id) ==
    IF price \in DOMAIN m /\ Position(m[price], id) # 0
    THEN [m EXCEPT ![price] = VecRemove(@, 1)]
    ELSE m

\* Vec::swap_remove: the last element moves into the place of the i-th.
SwapRemove(q, i) == SubSeq([q EXCEPT ![i] = q[Len(q)]], 1, Len(q) - 1)

\* Faulty variant of CancelFromSide: the order is taken out as swap_remove
\* does, the last of the queue moving into its place.
CancelFromSide_SwapRemove(m, price, id) ==
    IF price \in DOMAIN m /\ Position(m[price], id) # 0
    THEN [m EXCEPT ![price] = SwapRemove(@, Position(@, id))]
    ELSE m

CancelFromSide(m, price, id) ==
    IF price \in DOMAIN m /\ Position(m[price], id) # 0
    THEN [m EXCEPT ![price] = VecRemove(@, Position(@, id))]
    ELSE m

CancelFromQueues(ob, id) ==
    IF id \in DOMAIN ob.arena
    THEN [ob EXCEPT !.asks = CancelFromSide(@, ob.arena[id].price, id),
                    !.bids = CancelFromSide(@, ob.arena[id].price, id)]
    ELSE ob

CancelDelete(ob, id) == [ob EXCEPT !.arena = ArenaDelete(@, id)]

\* Faulty variant of cancel: the best prices are not recomputed.
cancel_NoRecompute(ob, id) == CancelDelete(CancelFromQueues(ob, id), id)

cancel(ob, id) ==
    CancelDelete(update_max_bid(update_min_ask(CancelFromQueues(ob, id))), id)

\* ---- market and limit ---------------------------------------------------
\* What market() returns, m being the outcome of the match loop.
\* Faulty variant of MarketResult: the whole quantity is reported as filled.
MarketResult_FilledQtyIsQty(ob, qty, m) ==
    [ob |-> finalize_execution(ob, m.fills),
     fills |-> m.fills,
     partial |-> m.remaining_qty > 0,
     filled_qty |-> qty]

MarketResult(ob, qty, m) ==
    [ob |-> finalize_execution(ob, m.fills),
     fills |-> m.fills,
     partial |-> m.remaining_qty > 0,
     filled_qty |-> qty - m.remaining_qty]

market(ob, id, side, qty) ==
    MarketResult(ob, qty, MatchOpposite(ob, id, side, qty, NoneVal))

\* The residual of a limit order put to rest on its own side.
RestBid(ob, id, user_id, price, remaining_qty) ==
    [ob EXCEPT !.arena = ArenaInsert(@, id, user_id, price, remaining_qty),
               !.bids = EntryPush(@, price, id),
               !.max_bid = IF price > @ THEN price ELSE @]

RestAsk(ob, id, user_id, price, remaining_qty) ==
    [ob EXCEPT !.arena = ArenaInsert(@, id, user_id, price, remaining_qty),
               !.asks = EntryPush(@, price, id),
               !.min_ask = IF price < @ THEN price ELSE @]

\* limit() after finalize_execution: fin is the finalised book.
LimitRest(fin, id, user_id, side, price, remaining_qty) ==
    IF remaining_qty > 0
    THEN IF side = "Bid"
         THEN RestBid(fin, id, user_id, price, remaining_qty)
         ELSE RestAsk(fin, id, user_id, price, remaining_qty)
    ELSE fin

\* Faulty variant of LimitResult: an order with a residual is put to rest
\* for all of its quantity.
LimitResult_RestsAll(ob, id, user_id, side, qty, price, m) ==
    [ob |-> LimitRest(finalize_execution(ob, m.fills), id, user_id, side, price,
                      IF m.remaining_qty > 0 THEN qty ELSE 0),
     fills |-> m.fills,
     partial |-> m.remaining_qty > 0,
     filled_qty |-> qty - m.remaining_qty]

LimitResult(ob, id, user_id, side, qty, price, m) ==
    [ob |-> LimitRest(finalize_execution(ob, m.fills), id, user_id, side, price,
                      m.remaining_qty),
     fills |-> m.fills,
     partial |-> m.remaining_qty > 0,
     filled_qty |-> qty - m.remaining_qty]

limit(ob, id, user_id, side, qty, price) ==
    LimitResult(ob, id, user_id, side, qty, price, MatchOpposite(ob, id, side, qty, price))

\* ---- IOC and FOK --------------------------------------------------------
\* models.rs declares OrderType::IOC and OrderType::FOK and execute() admits
\* them, but _execute has no arm for either; the two arms below follow the
\* classification table of the specification (section 4.3.4).
RECURSIVE SumQty(_, _, _)
SumQty(a, q, i) == IF i > Len(q) THEN 0 ELSE a[q[i]].qty + SumQty(a, q, i + 1)

RECURSIVE SumLevels(_, _, _)
SumLevels(a, m, S) ==
    IF S = {} THEN 0
    ELSE SumQty(a, m[Min(S)], 1) + SumLevels(a, m, S \ {Min(S)})

\* Opposing liquidity resting at prices favourable to the limit price lp.
AvailableQty(ob, side, lp) ==
    IF side = "Bid"
    THEN SumLevels(ob.arena, ob.asks, {p \in DOMAIN ob.asks : p <= lp})
    ELSE SumLevels(ob.arena, ob.bids, {p \in DOMAIN ob.bids : p >= lp})

\* Match within the limit price, finalise, and let the residual go.
\* Faulty variant of ioc: the residual is put to rest as a limit order's is.
ioc_RestsResidual(ob, id, side, qty, price) == limit(ob, id, 1, side, qty, price)

ioc(ob, id, side, qty, price) ==
    MarketResult(ob, qty, MatchOpposite(ob, id, side, qty, price))

\* ---- dispatch -----------------------------------------------------------
\* The event of a Market (or IOC) command, r being what market() returned.
\* Faulty variant of ClassifyMarket: a market order that cannot be filled
\* whole is turned down after the match has been finalised.
ClassifyMarket_RejectsPartial(id, r) ==
    [ob |-> r.ob,
     event |-> IF r.fills = <<>> \/ r.partial THEN Rejected(id, LIQUIDITY_NOT_AVAILABLE)
               ELSE Filled(id, r.filled_qty, r.fills)]

ClassifyMarket(id, r) ==
    [ob |-> r.ob,
     event |-> IF r.fills = <<>> THEN Rejected(id, LIQUIDITY_NOT_AVAILABLE)
               ELSE IF r.partial THEN PartiallyFilled(id, r.filled_qty, r.fills)
               ELSE Filled(id, r.filled_qty, r.fills)]

\* The event of a Limit command, r being what limit() returned.
\* Faulty variant of ClassifyLimit: an order that rests is reported Open
\* whether or not it was filled in part.
ClassifyLimit_OpenWhenPartial(id, r) ==
    [ob |-> r.ob,
     event |-> IF r.fills = <<>> \/ r.partial THEN Open(id)
               ELSE Filled(id, r.filled_qty, r.fills)]

\* Faulty variant of ClassifyLimit: the residual is looked at before the
\* fills, so that an order that rests untouched is reported PartiallyFilled.
ClassifyLimit_PartialFirst(id, r) ==
    [ob |-> r.ob,
     event |-> IF r.partial THEN PartiallyFilled(id, r.filled_qty, r.fills)
               ELSE IF r.fills = <<>> THEN Open(id)
               ELSE Filled(id, r.filled_qty, r.fills)]

ClassifyLimit(id, r) ==
    [ob |-> r.ob,
     event |-> IF r.fills = <<>> THEN Open(id)
               ELSE IF r.partial THEN PartiallyFilled(id, r.filled_qty, r.fills)
               ELSE Filled(id, r.filled_qty, r.fills)]

ClassifyFOK(id, r) == [ob |-> r.ob, event |-> Filled(id, r.filled_qty, r.fills)]

ExecuteMarket(ob, c) == ClassifyMarket(c.id, market(ob, c.id, c.side, c.qty))

ExecuteLimit(ob, c) == ClassifyLimit(c.id, limit(ob, c.id, c.user_id, c.side, c.qty, c.price))

ExecuteIOC(ob, c) == ClassifyMarket(c.id, ioc(ob, c.id, c.side, c.qty, c.price))

\* The answer to a FOK order that was matched without a feasibility test.
RejectUnlessFilled(id, r) ==
    [ob |-> r.ob,
     event |-> IF r.partial THEN Rejected(id, LIQUIDITY_NOT_AVAILABLE)
               ELSE Filled(id, r.filled_qty, r.fills)]

\* Faulty variant of ExecuteFOK: the order is matched and rested first and
\* turned down afterwards if it was not filled whole.
ExecuteFOK_MatchesFirst(ob, c) ==
    RejectUnlessFilled(c.id, limit(ob, c.id, c.user_id, c.side, c.qty, c.price))

ExecuteFOK(ob, c) ==
    IF AvailableQty(ob, c.side, c.price) < c.qty
    THEN [ob |-> ob, event |-> Rejected(c.id, LIQUIDITY_NOT_AVAILABLE)]
    ELSE ClassifyFOK(c.id, limit(ob, c.id, c.user_id, c.side, c.qty, c.price))

\* Faulty variant of ExecuteCancel: an id the directory does not hold is
\* turned down.
ExecuteCancel_UnknownIsError(ob, c) ==
    IF c.id \in DOMAIN ob.arena
    THEN [ob |-> cancel(ob, c.id), event |-> Cancelled(c.id)]
    ELSE [ob |-> ob, event |-> Rejected(c.id, INVALID_ORDER_NUMBER)]

ExecuteCancel(ob, c) ==
    [ob |-> cancel(ob, c.id), event |-> Cancelled(c.id)]

_execute(ob, c) ==
    CASE c.type = "market" -> ExecuteMarket(ob, c)
      [] c.type = "limit" -> ExecuteLimit(ob, c)
      [] c.type = "ioc" -> ExecuteIOC(ob, c)
      [] c.type = "fok" -> ExecuteFOK(ob, c)
      [] c.type = "cancel" -> ExecuteCancel(ob, c)

\* ---- statistics ---------------------------------------------------------
\* The sum of fm.price * fm.qty splits into the quantity traded at the
\* price u64::MAX and the products at the small prices.
RECURSIVE TopQty(_, _)
TopQty(fills, i) ==
    IF i > Len(fills) THEN 0
    ELSE (IF fills[i].price = U64_MAX THEN fills[i].qty ELSE 0) + TopQty(fills, i + 1)

RECURSIVE LowNotional(_, _)
LowNotional(fills, i) ==
    IF i > Len(fills) THEN 0
    ELSE (IF fills[i].price = U64_MAX THEN 0 ELSE fills[i].price * fills[i].qty)
         + LowNotional(fills, i + 1)

\* t * (2^64 - 1) + s leaves the word when it exceeds 2^64 - 1.
Overflows(t, s) == t >= 2 \/ (t = 1 /\ s >= 1)

NotionalOverflows(fills) == Overflows(TopQty(fills, 1), LowNotional(fills, 1))

\* t * (2^64 - 1) + s modulo 2^64, written top * (2^64 - 1) + low: it is
\* s - t where s >= t and 2^64 - (t - s) otherwise.
WrappingSum(t, s) ==
    IF s >= t THEN [top |-> 0, low |-> s - t]
    ELSE [top |-> 1, low |-> 0 - (t - s - 1)]

\* .map(|fm| fm.price * fm.qty).sum::<u64>() where the arithmetic wraps.
Notional(fills) == WrappingSum(TopQty(fills, 1), LowNotional(fills, 1))

\* Trade { total_qty, avg_price, last_qty, last_price }: avg_price is
\* notional / total_qty; the model keeps the numerator.
Trade(filled_qty, fills) ==
    [some |-> TRUE,
     total_qty |-> filled_qty,
     notional |-> Notional(fills),
     last_qty |-> fills[Len(fills)].qty,
     last_price |-> fills[Len(fills)].price]

\* The stats step of execute().  fills.last().unwrap() panics on an empty
\* list, after traded_volume has been advanced.
\* Faulty variant of UpdateStats: a PartiallyFilled event is not counted.
UpdateStats_FilledOnly(ob, e) ==
    IF e.type = "Filled" /\ e.fills # <<>>
    THEN [ob |-> [ob EXCEPT !.traded_volume = @ + e.filled_qty,
                            !.last_trade = Trade(e.filled_qty, e.fills)],
          event |-> e, panicked |-> FALSE]
    ELSE [ob |-> ob, event |-> e, panicked |-> FALSE]

UpdateStats(ob, e) ==
    IF e.type \in {"Filled", "PartiallyFilled"}
    THEN IF e.fills = <<>>
         THEN [ob |-> [ob EXCEPT !.traded_volume = @ + e.filled_qty],
               event |-> NoEvent, panicked |-> TRUE]
         ELSE IF overflow_checks /\ NotionalOverflows(e.fills)
         THEN [ob |-> [ob EXCEPT !.traded_volume = @ + e.filled_qty],
               event |-> NoEvent, panicked |-> TRUE]
         ELSE [ob |-> [ob EXCEPT !.traded_volume = @ + e.filled_qty,
                                 !.last_trade = Trade(e.filled_qty, e.fills)],
               event |-> e, panicked |-> FALSE]
    ELSE [ob |-> ob, event |-> e, panicked |-> FALSE]

\* ---- admission and execute ----------------------------------------------
\* Faulty variant of Admit: the accepted id is not stored.
Admit_NoStore(ob, c) == ob

\* Faulty variant of Admit: a cancel's id is stored as well.
Admit_CancelAdvances(ob, c) == [ob EXCEPT !.last_processed_order_id = c.id]

Admit(ob, c) ==
    IF c.type # "cancel" THEN [ob EXCEPT !.last_processed_order_id = c.id] ELSE ob

\* Faulty variant of AdmissionRejects: the gate turns nothing down.
AdmissionRejects_Never(ob, c) == FALSE

\* Faulty variant of AdmissionRejects: a repeated id passes the gate.
AdmissionRejects_RepeatPasses(ob, c) ==
    c.type # "cancel" /\ ob.last_processed_order_id > c.id

AdmissionRejects(ob, c) ==
    c.type # "cancel" /\ ob.last_processed_order_id >= c.id

\* execute() after _execute has returned r.
\* Faulty variant of ExecuteStats: the stats step runs whatever the flag.
ExecuteStats_AlwaysTrack(track, r) == UpdateStats(r.ob, r.event)

ExecuteStats(track, r) ==
    IF ~track
    THEN [ob |-> r.ob, event |-> r.event, panicked |-> FALSE]
    ELSE UpdateStats(r.ob, r.event)

execute(ob, track, c) ==
    IF AdmissionRejects(ob, c)
    THEN [ob |-> ob, event |-> Rejected(c.id, INVALID_ORDER_NUMBER), panicked |-> FALSE]
    ELSE ExecuteStats(track, _execute(Admit(ob, c), c))

\* ---- the text form of a command (models.rs) ------------------------------
\* A line of text is the sequence of its fields, what s.split(",") makes of
\* it; a field is one of a few words: a number, a word that is no number,
\* no type and no side, the five types, a type in capitals, and a side.
MaxFields == 6

Fields == {"1", "x", "market", "limit", "ioc", "fok", "cancel", "CANCEL", "bid"}
Lines == UNION {[1..n -> Fields] : n \in 1..MaxFields}

InvalidFieldSize == "InvalidFieldSize"
InvalidOrderType == "InvalidOrderType"
InvalidInteger == "InvalidInteger"
InvalidSide == "InvalidSide"

\* What from_str makes of a line: Ok(command), Err(error), or a panic.
NotParsed == [kind |-> "none", err |-> "", cmd |-> NoneVal]
ParseOk(cmd) == [kind |-> "Ok", err |-> "", cmd |-> cmd]
ParseErr(e) == [kind |-> "Err", err |-> e, cmd |-> NoneVal]
ParsePanic == [kind |-> "Panic", err |-> "", cmd |-> NoneVal]

\* str::to_lowercase on a field.
to_lowercase(field) == IF field = "CANCEL" THEN "cancel" ELSE field

\* s.to_lowercase().contains("cancel"): no field holds a comma, so the line
\* contains the word when one of its fields does.
contains_cancel(fields) ==
    \E i \in 1..Len(fields) : to_lowercase(fields[i]) = "cancel"

\* field.parse::<u64>() succeeds, and its value.
IsU64(field) == field = "1"
U64Of(field) == 1

\* Side::from_str(field) succeeds, and its value.
IsSide(field) == field = "bid"
SideOf(field) == "Bid"

\* The "market" arm.
ParseMarket(fields) ==
    IF Len(fields) < 5 THEN ParseErr(InvalidFieldSize)
    ELSE IF ~IsU64(fields[1]) THEN ParseErr(InvalidInteger)
    ELSE IF ~IsU64(fields[2]) THEN ParseErr(InvalidInteger)
    ELSE IF ~IsSide(fields[4]) THEN ParseErr(InvalidSide)
    ELSE IF ~IsU64(fields[5]) THEN ParseErr(InvalidInteger)
    ELSE ParseOk(MarketCmd(U64Of(fields[1]), U64Of(fields[2]), SideOf(fields[4]),
                           U64Of(fields[5])))

\* The error of the "limit", "ioc" and "fok" arms, which read the same six
\* fields ("" where there is none).
PricedError(fields) ==
    IF Len(fields) < 6 THEN InvalidFieldSize
    ELSE IF ~IsU64(fields[1]) THEN InvalidInteger
    ELSE IF ~IsU64(fields[2]) THEN InvalidInteger
    ELSE IF ~IsSide(fields[4]) THEN InvalidSide
    ELSE IF ~IsU64(fields[5]) THEN InvalidInteger
    ELSE IF ~IsU64(fields[6]) THEN InvalidInteger
    ELSE ""

ParseLimit(fields) ==
    IF PricedError(fields) # "" THEN ParseErr(PricedError(fields))
    ELSE ParseOk(LimitCmd(U64Of(fields[1]), U64Of(fields[2]), SideOf(fields[4]),
                          U64Of(fields[5]), U64Of(fields[6])))

ParseIOC(fields) ==
    IF PricedError(fields) # "" THEN ParseErr(PricedError(fields))
    ELSE ParseOk(IOCCmd(U64Of(fields[1]), U64Of(fields[2]), SideOf(fields[4]),
                        U64Of(fields[5]), U64Of(fields[6])))

ParseFOK(fields) ==
    IF PricedError(fields) # "" THEN ParseErr(PricedError(fields))
    ELSE ParseOk(FOKCmd(U64Of(fields[1]), U64Of(fields[2]), SideOf(fields[4]),
                        U64Of(fields[5]), U64Of(fields[6])))

\* The "cancel" arm: the id is unwrapped, not mapped to an error.
ParseCancel(fields) ==
    IF Len(fields) < 2 THEN ParseErr(InvalidFieldSize)
    ELSE IF ~IsU64(fields[1]) THEN ParsePanic
    ELSE ParseOk(CancelCmd(U64Of(fields[1])))

\* fields[order_type_index], counted from 1.
order_type_index(fields) == IF contains_cancel(fields) THEN 2 ELSE 3

\* impl FromStr for OrderType.  Indexing past the end of fields panics.
from_str(fields) ==
    IF Len(fields) < 2 THEN ParseErr(InvalidFieldSize)
    ELSE IF order_type_index(fields) > Len(fields) THEN ParsePanic
    ELSE CASE fields[order_type_index(fields)] = "market" -> ParseMarket(fields)
           [] fields[order_type_index(fields)] = "limit" -> ParseLimit(fields)
           [] fields[order_type_index(fields)] = "ioc" -> ParseIOC(fields)
           [] fields[order_type_index(fields)] = "fok" -> ParseFOK(fields)
           [] fields[order_type_index(fields)] = "cancel" -> ParseCancel(fields)
           [] OTHER -> ParseErr(InvalidOrderType)

\* ---- the state machine --------------------------------------------------
DEFAULT_ARENA_CAPACITY == 10000
DEFAULT_QUEUE_CAPACITY == 10

\* Faulty variant of new: the book starts with the id 1 taken.
new_StartsAtOne(arena_capacity, queue_capacity, track) ==
    [last_processed_order_id |-> 1,
     last_trade |-> NoTrade,
     traded_volume |-> 0,
     min_ask |-> U64_MAX,
     max_bid |-> 0,
     asks |-> EmptyMap,
     bids |-> EmptyMap,
     arena |-> [i \in {} |-> 0],
     track_stats |-> track]

\* OrderBook::new.  The two capacities only size the allocations (the map
\* of the directory, the vector of a new price level) and bound nothing.
new(arena_capacity, queue_capacity, track) ==
    [last_processed_order_id |-> 0,
     last_trade |-> NoTrade,
     traded_volume |-> 0,
     min_ask |-> U64_MAX,
     max_bid |-> 0,
     asks |-> EmptyMap,
     bids |-> EmptyMap,
     arena |-> [i \in {} |-> 0],
     track_stats |-> track]

\* impl Default for OrderBook
default == new(DEFAULT_ARENA_CAPACITY, DEFAULT_QUEUE_CAPACITY, FALSE)

\* The variables hold the book b that a constructor returned.
Constructed(b) ==
    /\ last_processed_order_id = b.last_processed_order_id
    /\ last_trade = b.last_trade
    /\ traded_volume = b.traded_volume
    /\ min_ask = b.min_ask
    /\ max_bid = b.max_bid
    /\ asks = b.asks
    /\ bids = b.bids
    /\ arena = b.arena
    /\ track_stats = b.track_stats
    /\ panicked = FALSE
    /\ last_accepted = 0

\* A book made by OrderBook::new with either flag; OrderBook::default() is
\* the one with the flag off.
\* The build decides what an arithmetic overflow does: with overflow checks
\* (the dev profile) it panics, without them (the release profile) it wraps.
Init ==
    /\ \E track \in BOOLEAN :
           Constructed(new(DEFAULT_ARENA_CAPACITY, DEFAULT_QUEUE_CAPACITY, track))
    /\ overflow_checks \in BOOLEAN
    /\ input = <<>>
    /\ parsed = NotParsed

\* The event by which execute() turns a command down at the admission gate.
AdmissionRejected(e) == e.type = "Rejected" /\ e.message = INVALID_ORDER_NUMBER

\* The fields take the values the call left in r; last_accepted is a history
\* variable: the id of the latest non-cancel command that passed the
\* admission gate (0 while there is none).
Returns(c, r) ==
    /\ last_processed_order_id' = r.ob.last_processed_order_id
    /\ last_trade' = r.ob.last_trade
    /\ traded_volume' = r.ob.traded_volume
    /\ min_ask' = r.ob.min_ask
    /\ max_bid' = r.ob.max_bid
    /\ asks' = r.ob.asks
    /\ bids' = r.ob.bids
    /\ arena' = r.ob.arena
    /\ panicked' = r.panicked
    /\ last_accepted' = IF c.type # "cancel" /\ ~AdmissionRejected(r.event)
                         THEN c.id ELSE last_accepted
    /\ overflow_checks' = overflow_checks
    /\ UNCHANGED <<input, parsed>>

\* One call ob.execute(c).
Execute(c) == Returns(c, execute(Book, track_stats, c))

Market(id, user_id, side, qty) ==
    /\ ~panicked
    /\ Execute(MarketCmd(id, user_id, side, qty))
    /\ UNCHANGED track_stats

Limit(id, user_id, side, qty, price) ==
    /\ ~panicked
    /\ Execute(LimitCmd(id, user_id, side, qty, price))
    /\ UNCHANGED track_stats

IOC(id, user_id, side, qty, price) ==
    /\ ~panicked
    /\ Execute(IOCCmd(id, user_id, side, qty, price))
    /\ UNCHANGED track_stats

FOK(id, user_id, side, qty, price) ==
    /\ ~panicked
    /\ Execute(FOKCmd(id, user_id, side, qty, price))
    /\ UNCHANGED track_stats

Cancel(id) ==
    /\ ~panicked
    /\ Execute(CancelCmd(id))
    /\ UNCHANGED track_stats

\* OrderBook::track_stats(track)
TrackStats(track) ==
    /\ ~panicked
    /\ track_stats' = track
    /\ UNCHANGED <<bookvars, panicked, last_accepted, overflow_checks, input, parsed>>

Next ==
    \/ \E id \in Ids, u \in UserIds, s \in Sides, q \in Qtys : Market(id, u, s, q)
    \/ \E id \in Ids, u \in UserIds, s \in Sides, q \in Qtys, p \in Prices : Limit(id, u, s, q, p)
    \/ \E id \in Ids, u \in UserIds, s \in Sides, q \in Qtys, p \in Prices : IOC(id, u, s, q, p)
    \/ \E id \in Ids, u \in UserIds, s \in Sides, q \in Qtys, p \in Prices : FOK(id, u, s, q, p)
    \/ \E id \in Ids : Cancel(id)
    \/ \E t \in BOOLEAN : TrackStats(t)

Spec == Init /\ [][Next]_vars

\* The parser on its own: a line of text is given and OrderType::from_str
\* is called on it; the book plays no part.
ParseInit ==
    /\ Constructed(default)
    /\ overflow_checks = FALSE
    /\ input \in Lines
    /\ parsed = NotParsed

\* OrderType::from_str(input)
FromStr ==
    /\ parsed = NotParsed
    /\ parsed' = from_str(input)
    /\ UNCHANGED <<bookvars, track_stats, panicked, last_accepted,
                   overflow_checks, input>>

ParseNext == FromStr

ParseSpec == ParseInit /\ [][ParseNext]_vars

\* ======================================================================
\* Properties
\* ======================================================================
\* The commands a caller can issue within the bounds.
MarketCmds == {MarketCmd(id, u, sd, q) : id \in Ids, u \in UserIds, sd \in Sides, q \in Qtys}
LimitCmds ==
    UNION {{LimitCmd(id, u, sd, q, p) : id \in Ids, u \in UserIds, sd \in Sides, q \in Qtys} : p \in Prices}
IOCCmds ==
    UNION {{IOCCmd(id, u, sd, q, p) : id \in Ids, u \in UserIds, sd \in Sides, q \in Qtys} : p \in Prices}
FOKCmds ==
    UNION {{FOKCmd(id, u, sd, q, p) : id \in Ids, u \in UserIds, sd \in Sides, q \in Qtys} : p \in Prices}
CancelCmds == {CancelCmd(id) : id \in Ids}
NonCancelCmds == MarketCmds \cup LimitCmds \cup IOCCmds \cup FOKCmds

\* What ob.execute(c) returns and leaves behind when called in this state.
Result(c) == execute(Book, track_stats, c)

\* The makers a list of fills names, and those it fills totally.
HasFill(fills, id) == \E i \in 1..Len(fills) : fills[i].maker_id = id
HasTotalFill(fills, id) ==
    \E i \in 1..Len(fills) : fills[i].maker_id = id /\ fills[i].total_fill

RECURSIVE SumFillQty(_, _)
SumFillQty(fills, i) == IF i > Len(fills) THEN 0 ELSE fills[i].qty + SumFillQty(fills, i + 1)

\* The prices of a side at which an order rests.
RestingPrices(m) == {p \in DOMAIN m : m[p] # <<>>}
HasRestingAsk == RestingPrices(asks) # {}
HasRestingBid == RestingPrices(bids) # {}

\* ---- C1 ----------------------------------------------------------------
\* C1: every Market, Limit, IOC or FOK command whose id is <= last_seq is
\* answered Rejected{id, INVALID_ORDER_NUMBER}, and the book it leaves
\* (directory, both side books, min_ask, max_bid, last_seq, traded_volume,
\* last_trade) is the book it found.
C1_Rejects(c, r) ==
    /\ r.event = Rejected(c.id, INVALID_ORDER_NUMBER)
    /\ r.ob = Book
    /\ ~r.panicked

C2_Accepts(c, r) ==
    ~AdmissionRejected(r.event) =>
        /\ c.id > last_accepted
        /\ r.ob.last_processed_order_id = c.id

C2_MonotonicSequence ==
    /\ last_processed_order_id = last_accepted
    /\ \A c \in NonCancelCmds : C2_Accepts(c, Result(c))

\* After two accepted commands a third one, skipping no id or some, is accepted.
C2_Witness ==
    /\ last_accepted >= 2
    /\ \E c \in NonCancelCmds :
        /\ ~AdmissionRejected(Result(c).event)
        /\ Result(c).ob.last_processed_order_id = c.id
        /\ c.id > last_accepted

\* ---- C3 ----------------------------------------------------------------
\* C3 (E1): every id in a price-level queue of either side has a directory
\* entry with that id and the level's price, and every directory entry sits
\* exactly once in exactly one queue across both sides.
OccurrencesIn(sd, m, id) ==
    UNION {{<<sd, p, i>> : i \in {k \in 1..Len(m[p]) : m[p][k] = id}} : p \in DOMAIN m}

Occurrences(id) == OccurrencesIn("Ask", asks, id) \cup OccurrencesIn("Bid", bids, id)

QueueAgrees(m) ==
    \A p \in DOMAIN m : \A i \in 1..Len(m[p]) :
        /\ m[p][i] \in DOMAIN arena
        /\ arena[m[p][i]].id = m[p][i]
        /\ arena[m[p][i]].price = p

C3_DirectoryAgreement ==
    /\ QueueAgrees(asks)
    /\ QueueAgrees(bids)
    /\ \A id \in DOMAIN arena : Cardinality(Occurrences(id)) = 1

\* Orders rest on both sides after a command has filled and removed a maker
\* (its price key is left behind with an empty queue).
C3_Witness ==
    /\ HasRestingAsk
    /\ HasRestingBid
    /\ Cardinality(DOMAIN arena) >= 2
    /\ \E p \in DOMAIN asks \cup DOMAIN bids :
        (p \in DOMAIN asks /\ asks[p] = <<>>) \/ (p \in DOMAIN bids /\ bids[p] = <<>>)

\* ---- C4 ----------------------------------------------------------------
\* C4 (E4) as stated: in every reachable state min_ask is strictly greater
\* than max_bid.
C4_NoCrossStrict == min_ask > max_bid

\* C4 as amended: min_ask >= max_bid in every reachable state, strictly
\* whenever both sides hold a resting order; the two are equal only when an
\* ask rests at price 0 and no bid rests, or a bid rests at u64::MAX and no
\* ask rests.
C4_NoCross ==
    /\ min_ask >= max_bid
    /\ (HasRestingAsk /\ HasRestingBid) => min_ask > max_bid
    /\ min_ask = max_bid =>
        \/ (HasRestingAsk /\ ~HasRestingBid /\ min_ask = 0)
        \/ (HasRestingBid /\ ~HasRestingAsk /\ max_bid = U64_MAX)

\* Both sides rest one tick apart after a crossing limit order was filled
\* in part and rested.
C4_Witness ==
    /\ HasRestingAsk
    /\ HasRestingBid
    /\ min_ask = max_bid + 1
    /\ \E id \in DOMAIN arena : arena[id].qty < MaxQty /\ id = last_processed_order_id

\* ---- C5 ----------------------------------------------------------------
\* C5 (E3): min_ask is the lowest ask price with a non-empty queue (u64::MAX
\* if there is none), max_bid the highest bid price with a non-empty queue
\* (0 if there is none); keys with empty queues do not count.
C5_BestPrices ==
    /\ min_ask = IF HasRestingAsk THEN Min(RestingPrices(asks)) ELSE U64_MAX
    /\ max_bid = IF HasRestingBid THEN Max(RestingPrices(bids)) ELSE 0

\* An emptied key lies on the better side of the best resting price, on
\* either side of the book.
C5_Witness ==
    \/ /\ HasRestingAsk
       /\ \E p \in DOMAIN asks : asks[p] = <<>> /\ p < min_ask
    \/ /\ HasRestingBid
       /\ \E p \in DOMAIN bids : bids[p] = <<>> /\ p > max_bid

\* ---- C6 ----------------------------------------------------------------
\* C6 (E2): every order in the directory has remaining quantity > 0.
C6_NonZeroResting == \A id \in DOMAIN arena : arena[id].qty > 0

\* A command fills a maker in part, and the maker stays with what is left.
C6_PartialLeft(r) ==
    \E i \in 1..Len(r.event.fills) :
        /\ ~r.event.fills[i].total_fill
        /\ r.event.fills[i].maker_id \in DOMAIN r.ob.arena
        /\ r.ob.arena[r.event.fills[i].maker_id].qty > 0
        /\ r.ob.arena[r.event.fills[i].maker_id].qty < arena[r.event.fills[i].maker_id].qty

C6_Witness ==
    /\ \E id \in DOMAIN arena : arena[id].qty = 1
    /\ \E c \in MarketCmds \cup LimitCmds : C6_PartialLeft(Result(c))

\* ---- C7 ----------------------------------------------------------------
\* C7 (E6/P4): of two makers resting at the same price, a before b, a command
\* fills b only if it fills a totally.
FifoIn(m, fills) ==
    \A p \in DOMAIN m : \A i, j \in 1..Len(m[p]) :
        (i < j /\ m[p][i] < m[p][j] /\ HasFill(fills, m[p][j])) => HasTotalFill(fills, m[p][i])

C7_Fifo ==
    \A c \in NonCancelCmds \cup CancelCmds :
        FifoIn(asks, Result(c).event.fills) /\ FifoIn(bids, Result(c).event.fills)

\* An aggressor takes a.qty + 1 at a price where a rests before b: a is
\* filled totally, b in part.
C7_OneBeyond(m, c, fills) ==
    \E p \in DOMAIN m :
        /\ Len(m[p]) >= 2
        /\ c.qty = arena[m[p][1]].qty + 1
        /\ Len(fills) = 2
        /\ fills[1].maker_id = m[p][1] /\ fills[1].total_fill
        /\ fills[2].maker_id = m[p][2] /\ ~fills[2].total_fill /\ fills[2].qty = 1

C7_Witness ==
    \E c \in MarketCmds \cup LimitCmds :
        \/ C7_OneBeyond(asks, c, Result(c).event.fills)
        \/ C7_OneBeyond(bids, c, Result(c).event.fills)

\* ---- C8 ----------------------------------------------------------------
\* C8: a Bid aggressor's fills run through ask prices in ascending order, an
\* Ask aggressor's through bid prices in descending order, and a maker is
\* filled only if every opposing maker resting at a strictly better price
\* is filled totally by the same command.
FillsInPriceOrder(side, fills) ==
    \A i, j \in 1..Len(fills) :
        i < j => IF side = "Bid" THEN fills[i].price <= fills[j].price
                                 ELSE fills[i].price >= fills[j].price

BetterFilledFirst(side, fills) ==
    \A i \in 1..Len(fills) :
        IF side = "Bid"
        THEN \A p \in DOMAIN asks : \A k \in 1..Len(asks[p]) :
                p < fills[i].price => HasTotalFill(fills, asks[p][k])
        ELSE \A p \in DOMAIN bids : \A k \in 1..Len(bids[p]) :
                p > fills[i].price => HasTotalFill(fills, bids[p][k])

C8_PricePriority ==
    \A c \in NonCancelCmds :
        /\ FillsInPriceOrder(c.side, Result(c).event.fills)
        /\ BetterFilledFirst(c.side, Result(c).event.fills)

\* Aggressors of both sides that are filled at two price levels, best first.
C8_TwoLevels(sd) ==
    \E c \in MarketCmds \cup LimitCmds :
        /\ c.side = sd
        /\ Len(Result(c).event.fills) = 2
        /\ Result(c).event.fills[1].price # Result(c).event.fills[2].price

C8_Witness == C8_TwoLevels("Ask") \/ C8_TwoLevels("Bid")

\* ---- C9 ----------------------------------------------------------------
\* C9: every fill of a Limit command with limit price lp has price <= lp for
\* a Bid and price >= lp for an Ask, and the price is the maker's resting
\* price.
C9_Capped(c, fills) ==
    \A i \in 1..Len(fills) :
        /\ c.side = "Bid" => fills[i].price <= c.price
        /\ c.side = "Ask" => fills[i].price >= c.price
        /\ fills[i].maker_id \in DOMAIN arena
        /\ fills[i].price = arena[fills[i].maker_id].price

C9_LimitCap == \A c \in LimitCmds : C9_Capped(c, Result(c).event.fills)

\* A Limit command is filled at a maker's price that is strictly better
\* than its own limit, while a worse-priced maker is left alone.
C9_Witness ==
    \E c \in LimitCmds :
        /\ Result(c).event.fills # <<>>
        /\ Result(c).event.fills[1].price # c.price
        /\ Result(c).event.type = "PartiallyFilled"
        /\ \E id \in DOMAIN Result(c).ob.arena : id # c.id

\* ---- C10 ---------------------------------------------------------------
\* C10 (P2): for every accepted Market or Limit command the fills sum to at
\* most the command's qty, and when they sum to exactly the qty the event is
\* Filled.
C10_Bounded(c, r) ==
    ~AdmissionRejected(r.event) =>
        /\ SumFillQty(r.event.fills, 1) <= c.qty
        /\ SumFillQty(r.event.fills, 1) = c.qty => r.event.type = "Filled"

C10_FillsBoundedAndFilled ==
    \A c \in MarketCmds \cup LimitCmds : C10_Bounded(c, Result(c))

\* ---- C11 ---------------------------------------------------------------
\* The quantity resting on the side a command of this side trades against.
OpposingQty(side) ==
    IF side = "Bid" THEN SumLevels(arena, asks, DOMAIN asks)
    ELSE SumLevels(arena, bids, DOMAIN bids)

\* C11: an accepted Market command is answered by what its match produced:
\* Rejected{LIQUIDITY_NOT_AVAILABLE} when there are no fills (nothing rests
\* on the opposing side, or the command asks for nothing), PartiallyFilled
\* when there are fills and quantity remains, Filled when there are fills
\* and nothing remains; filled_qty is qty minus the unmatched remainder,
\* which is the sum of the fills.  m is what the match produced, L the
\* opposing quantity.
C11_Classified(c, r, m, L) ==
    ~AdmissionRejected(r.event) =>
        /\ m.fills = <<>> <=> (c.qty = 0 \/ L = 0)
        /\ m.fills = <<>> => r.event = Rejected(c.id, LIQUIDITY_NOT_AVAILABLE)
        /\ (m.fills # <<>> /\ c.qty > L) =>
                r.event = PartiallyFilled(c.id, L, m.fills)
        /\ (m.fills # <<>> /\ c.qty <= L) =>
                r.event = Filled(c.id, c.qty, m.fills)
        /\ m.fills # <<>> =>
                /\ r.event.filled_qty = c.qty - m.remaining_qty
                /\ r.event.filled_qty = SumFillQty(r.event.fills, 1)

C11_MarketClassification ==
    \A c \in MarketCmds :
        C11_Classified(c, Result(c),
                       MatchOpposite(Book, c.id, c.side, c.qty, NoneVal),
                       OpposingQty(c.side))

\* One book on which three Market commands meet the three outcomes: asks
\* rest and no bids, so that a sell finds nothing, a buy of all that rests
\* is Filled and a buy of more is PartiallyFilled.
C11_Outcome(sd, q, type) ==
    \E c \in MarketCmds : c.side = sd /\ c.qty = q /\ Result(c).event.type = type

C11_Witness ==
    /\ HasRestingAsk
    /\ ~HasRestingBid
    /\ OpposingQty("Bid") = 1
    /\ C11_Outcome("Ask", 1, "Rejected")
    /\ C11_Outcome("Bid", 1, "Filled")
    /\ C11_Outcome("Bid", 2, "PartiallyFilled")

\* ---- C12 ---------------------------------------------------------------
\* C12 as stated: when an accepted Market command is answered
\* Rejected{LIQUIDITY_NOT_AVAILABLE}, the book (directory, both side books,
\* min_ask, max_bid, last_seq, traded_volume, last_trade) is the book before.
C12_LiquidityRejected(r) ==
    r.event.type = "Rejected" /\ r.event.message = LIQUIDITY_NOT_AVAILABLE

C12_UntouchedStrict ==
    \A c \in MarketCmds :
        C12_LiquidityRejected(Result(c)) => Result(c).ob = Book

\* C12 as amended: the directory, both side books, min_ask, max_bid,
\* traded_volume and last_trade are those before the command; last_seq has
\* advanced to the command's id.
C12_Untouched ==
    \A c \in MarketCmds :
        C12_LiquidityRejected(Result(c)) =>
            /\ Result(c).ob = [Book EXCEPT !.last_processed_order_id = c.id]
            /\ c.id > last_processed_order_id
            /\ ~Result(c).panicked

\* With stats on and a trade recorded, orders rest on one side only and a
\* Market command of that side, asking for something, is turned down.
C12_Witness ==
    /\ track_stats
    /\ last_trade.some
    /\ DOMAIN arena # {}
    /\ \E c \in MarketCmds :
        /\ c.qty > 0
        /\ OpposingQty(c.side) = 0
        /\ C12_LiquidityRejected(Result(c))

\* ---- C13 ---------------------------------------------------------------
\* The opposing quantity resting at prices within a command's limit.
CrossingQty(c) == AvailableQty(Book, c.side, c.price)

\* C13: an accepted Limit command is answered by what its match produced:
\* Open{id} when there are no fills (nothing rests within the limit, or the
\* command asks for nothing), PartiallyFilled when there are fills and a
\* residual remains, Filled when there are fills and nothing remains.  m is
\* what the match produced, A the opposing quantity within the limit.
C13_Classified(c, r, m, A) ==
    ~AdmissionRejected(r.event) =>
        /\ m.fills = <<>> <=> (c.qty = 0 \/ A = 0)
        /\ m.fills = <<>> => r.event = Open(c.id)
        /\ (m.fills # <<>> /\ c.qty > A) =>
                r.event = PartiallyFilled(c.id, A, m.fills)
        /\ (m.fills # <<>> /\ c.qty <= A) =>
                r.event = Filled(c.id, c.qty, m.fills)
        /\ m.fills # <<>> =>
                /\ r.event.filled_qty = c.qty - m.remaining_qty
                /\ r.event.filled_qty = SumFillQty(r.event.fills, 1)

C13_LimitClassification ==
    \A c \in LimitCmds :
        C13_Classified(c, Result(c),
                       MatchOpposite(Book, c.id, c.side, c.qty, c.price),
                       CrossingQty(c))

\* One book on which three Limit bids meet the three outcomes: one unit is
\* offered at price 1; a bid below it is Open, a bid for one unit at 1 is
\* Filled, a bid for two units at 1 is PartiallyFilled.
C13_Outcome(p, q, type) ==
    \E c \in LimitCmds :
        c.side = "Bid" /\ c.price = p /\ c.qty = q /\ Result(c).event.type = type

C13_Witness ==
    /\ min_ask = 1
    /\ OpposingQty("Bid") = 1
    /\ C13_Outcome(0, 1, "Open")
    /\ C13_Outcome(1, 1, "Filled")
    /\ C13_Outcome(1, 2, "PartiallyFilled")

\* ---- C14 ---------------------------------------------------------------
\* The queue of a side at a price (empty where the side has no such key).
QueueAt(ob, side, price) ==
    IF side = "Bid"
    THEN IF price \in DOMAIN ob.bids THEN ob.bids[price] ELSE <<>>
    ELSE IF price \in DOMAIN ob.asks THEN ob.asks[price] ELSE <<>>

\* The order c.id rests in ob as the residual of c after filled_qty.
RestsResidual(ob, c, filled_qty) ==
    /\ c.id \in DOMAIN ob.arena
    /\ ob.arena[c.id].price = c.price
    /\ ob.arena[c.id].qty = c.qty - filled_qty
    /\ c.qty - filled_qty > 0
    /\ QueueAt(ob, c.side, c.price) # <<>>
    /\ QueueAt(ob, c.side, c.price)[Len(QueueAt(ob, c.side, c.price))] = c.id

\* C14: when a Limit command is answered Open{id} or PartiallyFilled{id},
\* the directory then holds id with the limit price and remaining quantity
\* qty - filled_qty > 0 and id is the last of its side's queue at that
\* price; when it is answered Filled the directory does not hold id.
C14_Rests(c, r) ==
    /\ r.event.type \in {"Open", "PartiallyFilled"} =>
            RestsResidual(r.ob, c, r.event.filled_qty)
    /\ r.event.type = "Filled" => c.id \notin DOMAIN r.ob.arena

C14_LimitResidualRests == \A c \in LimitCmds : C14_Rests(c, Result(c))

\* ---- C15 ---------------------------------------------------------------
\* A queue with every occurrence of id taken out, the rest in their order.
RECURSIVE Without(_, _, _)
Without(q, id, i) ==
    IF i > Len(q) THEN <<>>
    ELSE (IF q[i] = id THEN <<>> ELSE <<q[i]>>) \o Without(q, id, i + 1)

SideWithout(after, before, id) ==
    /\ DOMAIN after = DOMAIN before
    /\ \A p \in DOMAIN before : after[p] = Without(before[p], id, 1)

\* C15: Cancel{id} of an order in the directory is answered Cancelled{id};
\* afterwards id is in no queue and not in the directory, min_ask and
\* max_bid are the best prices of what still rests, every other order keeps
\* its price, remaining quantity and place among the others of its queue,
\* and last_seq, traded_volume and last_trade are as before.
C15_Cancels(id, r) ==
    /\ r.event = Cancelled(id)
    /\ ~r.panicked
    /\ Occurrences(id) # {}
    /\ SideWithout(r.ob.asks, asks, id)
    /\ SideWithout(r.ob.bids, bids, id)
    /\ DOMAIN r.ob.arena = DOMAIN arena \ {id}
    /\ \A o \in DOMAIN r.ob.arena : r.ob.arena[o] = arena[o]
    /\ r.ob.min_ask = IF RestingPrices(r.ob.asks) = {} THEN U64_MAX
                       ELSE Min(RestingPrices(r.ob.asks))
    /\ r.ob.max_bid = IF RestingPrices(r.ob.bids) = {} THEN 0
                       ELSE Max(RestingPrices(r.ob.bids))
    /\ r.ob.last_processed_order_id = last_processed_order_id
    /\ r.ob.traded_volume = traded_volume
    /\ r.ob.last_trade = last_trade

C15_CancelResting ==
    \A id \in DOMAIN arena : C15_Cancels(id, Result(CancelCmd(id)))

\* Two orders wait at one price and the second of them is cancelled, and
\* the cancel of some order moves a best price.
C15_SecondInQueue(m) ==
    \E p \in DOMAIN m :
        /\ Len(m[p]) = 2
        /\ Result(CancelCmd(m[p][2])).event.type = "Cancelled"
        /\ m[p][2] \notin DOMAIN Result(CancelCmd(m[p][2])).ob.arena

C15_Witness ==
    /\ C15_SecondInQueue(asks) \/ C15_SecondInQueue(bids)
    /\ \E id \in DOMAIN arena :
        \/ Result(CancelCmd(id)).ob.min_ask # min_ask
        \/ Result(CancelCmd(id)).ob.max_bid # max_bid

\* ---- C16 ---------------------------------------------------------------
\* C16: Cancel{id} of an id the directory does not hold is answered
\* Cancelled{id} and leaves the whole book as it was; and after any
\* Cancel{id}, a second Cancel{id} is answered Cancelled{id} and changes
\* nothing.
C16_NoChange(id, ob, r) ==
    /\ r.event = Cancelled(id)
    /\ r.ob = ob
    /\ ~r.panicked

C16_Second(id, r) ==
    C16_NoChange(id, r.ob, execute(r.ob, track_stats, CancelCmd(id)))

C16_CancelIdempotent ==
    \A id \in Ids :
        /\ id \notin DOMAIN arena => C16_NoChange(id, Book, Result(CancelCmd(id)))
        /\ C16_Second(id, Result(CancelCmd(id)))

\* Orders rest, a price level has been emptied, one id has come and gone
\* and another has never been seen: both are cancelled for nothing.
C16_Witness ==
    /\ DOMAIN arena # {}
    /\ \E p \in DOMAIN asks \cup DOMAIN bids :
        (p \in DOMAIN asks /\ asks[p] = <<>>) \/ (p \in DOMAIN bids /\ bids[p] = <<>>)
    /\ \E id \in Ids :
        /\ id >= 1 /\ id <= last_processed_order_id /\ id \notin DOMAIN arena
        /\ Result(CancelCmd(id)).event = Cancelled(id)
    /\ \E id \in Ids :
        /\ id > last_processed_order_id
        /\ Result(CancelCmd(id)).event = Cancelled(id)

\* ---- C17 ---------------------------------------------------------------
\* C17: a Cancel is executed whatever its id is relative to last_seq (it
\* is never turned down at the admission gate), and last_sequence() after
\* it is last_sequence() before it, so that a later command carrying the
\* cancelled id is admitted exactly as it would have been.
C17_Bypasses(id, r) ==
    /\ r.event = Cancelled(id)
    /\ r.ob.last_processed_order_id = last_processed_order_id
    /\ id \notin DOMAIN r.ob.arena

C17_AdmitsAfter(c, r) ==
    AdmissionRejects(r.ob, c) <=> AdmissionRejects(Book, c)

C17_CancelBypassesAdmission ==
    /\ \A id \in Ids : C17_Bypasses(id, Result(CancelCmd(id)))
    /\ \A c \in MarketCmds : C17_AdmitsAfter(c, Result(CancelCmd(c.id)))

\* A resting order whose id lies below last_seq is cancelled, and so is an
\* id above last_seq.
C17_Witness ==
    /\ \E id \in DOMAIN arena :
        /\ id < last_processed_order_id
        /\ id \notin DOMAIN Result(CancelCmd(id)).ob.arena
    /\ \E id \in Ids :
        /\ id > last_processed_order_id
        /\ Result(CancelCmd(id)).event = Cancelled(id)

\* ---- C18 ---------------------------------------------------------------
\* C18 (P3): on a book in which no order rests, a Limit command followed at
\* once by Cancel of its id leaves an empty directory, no non-empty queue,
\* min_ask = u64::MAX, max_bid = 0, and depth snapshots equal to those taken
\* before the Limit.  r is what the Cancel returned.
C18_Restored(c, r) ==
    /\ r.event = Cancelled(c.id)
    /\ DOMAIN r.ob.arena = {}
    /\ RestingPrices(r.ob.asks) = {}
    /\ RestingPrices(r.ob.bids) = {}
    /\ r.ob.min_ask = U64_MAX
    /\ r.ob.max_bid = 0
    /\ \A levels \in 0..MaxLevels : \A include_orders \in BOOLEAN :
        depth(r.ob, levels, include_orders) = depth(Book, levels, include_orders)

C18_ThenCancel(c, r) == execute(r.ob, track_stats, CancelCmd(c.id))

C18_RoundTrip ==
    DOMAIN arena = {} =>
        \A c \in LimitCmds : C18_Restored(c, C18_ThenCancel(c, Result(c)))

\* A book that has been traded empty, on which a Limit command is Open,
\* rests and shows in the depth snapshot before it is cancelled.
C18_Witness ==
    /\ DOMAIN arena = {}
    /\ DOMAIN asks # {}
    /\ DOMAIN bids # {}
    /\ \E c \in LimitCmds :
        /\ Result(c).event = Open(c.id)
        /\ c.id \in DOMAIN Result(c).ob.arena
        /\ depth(Result(c).ob, 1, TRUE) # depth(Book, 1, TRUE)
        /\ C18_ThenCancel(c, Result(c)).event = Cancelled(c.id)

\* ---- C19 ---------------------------------------------------------------
\* C19: with track_stats on, a command answered Filled or PartiallyFilled
\* adds the event's filled_qty to traded_volume and overwrites last_trade
\* with total_qty = filled_qty and last_qty, last_price taken from the
\* last fill; any other answer leaves traded_volume and last_trade alone.
C19_Stats(r) ==
    IF r.event.type \in {"Filled", "PartiallyFilled"}
    THEN /\ ~r.panicked
         /\ r.ob.traded_volume = traded_volume + r.event.filled_qty
         /\ r.ob.last_trade.some
         /\ r.ob.last_trade.total_qty = r.event.filled_qty
         /\ r.ob.last_trade.last_qty = r.event.fills[Len(r.event.fills)].qty
         /\ r.ob.last_trade.last_price = r.event.fills[Len(r.event.fills)].price
    ELSE /\ r.ob.traded_volume = traded_volume
         /\ r.ob.last_trade = last_trade

\* A call that panics returns no event, and the claim is about the events
\* returned.
C19_Returned(r) == r.panicked \/ C19_Stats(r)

C19_StatsEnabled ==
    track_stats =>
        \A c \in MarketCmds \cup LimitCmds \cup CancelCmds : C19_Returned(Result(c))

\* With stats on and a trade on record, a command is filled in part and a
\* new trade takes the place of the old one.
C19_Witness ==
    /\ track_stats
    /\ last_trade.some
    /\ traded_volume > 0
    /\ \E c \in MarketCmds \cup LimitCmds :
        /\ Result(c).event.type = "PartiallyFilled"
        /\ Result(c).ob.last_trade # last_trade
        /\ Result(c).ob.traded_volume > traded_volume

\* ---- C20 ---------------------------------------------------------------
\* C20: a default-constructed book has stats tracking off, and while
\* tracking is off no command, whatever its kind and answer, changes
\* traded_volume or last_trade.
C20_Frozen(r) ==
    /\ r.ob.traded_volume = traded_volume
    /\ r.ob.last_trade = last_trade
    /\ ~r.panicked

C20_StatsDisabled ==
    /\ ~default.track_stats
    /\ ~track_stats =>
        \A c \in NonCancelCmds \cup CancelCmds : C20_Frozen(Result(c))

\* Tracking was on for a trade and is now off; a command that is filled
\* leaves the recorded volume and trade as they are.
C20_Witness ==
    /\ ~track_stats
    /\ traded_volume > 0
    /\ last_trade.some
    /\ \E c \in MarketCmds \cup LimitCmds :
        /\ Result(c).event.type \in {"Filled", "PartiallyFilled"}
        /\ Result(c).ob.traded_volume = traded_volume

\* ---- C21 ---------------------------------------------------------------
\* The prices of the levels of one side of a snapshot.
LevelPrices(levels) == {levels[i].price : i \in 1..Len(levels)}

\* The first n elements of a sequence (all of it if it is shorter).
Take(q, n) == SubSeq(q, 1, IF n < Len(q) THEN n ELSE Len(q))

\* The n best resting prices of each side.
BestAsks(n) == {Take(Iter(RestingPrices(asks)), n)[i] :
                    i \in 1..Len(Take(Iter(RestingPrices(asks)), n))}
BestBids(n) == {Take(IterRev(RestingPrices(bids)), n)[i] :
                    i \in 1..Len(Take(IterRev(RestingPrices(bids)), n))}

\* C21: for every L, depth(L, include_orders) returns at most L levels on
\* each side, namely the L best non-empty levels of that side.
C21_Bounded(L, d) ==
    /\ Len(d.asks) <= L
    /\ Len(d.bids) <= L
    /\ LevelPrices(d.asks) = BestAsks(L)
    /\ LevelPrices(d.bids) = BestBids(L)

C21_DepthLevelBound ==
    \A L \in 0..MaxLevels : \A include_orders \in BOOLEAN :
        C21_Bounded(L, depth(Book, L, include_orders))

\* ---- C22 ---------------------------------------------------------------
\* C22: in a snapshot the ask levels are listed in ascending price order
\* and the bid levels in descending price order, the best level first.
C22_Ordered(d) ==
    /\ \A i, j \in 1..Len(d.asks) : i < j => d.asks[i].price < d.asks[j].price
    /\ \A i, j \in 1..Len(d.bids) : i < j => d.bids[i].price > d.bids[j].price

C22_DepthOrdering ==
    \A L \in 0..MaxLevels : \A include_orders \in BOOLEAN :
        C22_Ordered(depth(Book, L, include_orders))

\* ---- C23 ---------------------------------------------------------------
\* The remaining quantities of the orders of a queue, summed from the back.
RECURSIVE RestingQty(_, _)
RestingQty(q, n) == IF n = 0 THEN 0 ELSE RestingQty(q, n - 1) + arena[q[n]].qty

\* The level of a snapshot side is the level of the book side m at its price.
LevelAgrees(lv, m, include_orders) ==
    /\ lv.price \in RestingPrices(m)
    /\ lv.qty = RestingQty(m[lv.price], Len(m[lv.price]))
    /\ include_orders =>
            /\ Len(lv.orders) = Len(m[lv.price])
            /\ \A i \in 1..Len(lv.orders) :
                /\ lv.orders[i].id = m[lv.price][i]
                /\ lv.orders[i] = arena[m[lv.price][i]]
    /\ ~include_orders => lv.orders = <<>>

SideAgrees(levels, m, include_orders) ==
    /\ \A i \in 1..Len(levels) : LevelAgrees(levels[i], m, include_orders)
    /\ \A i, j \in 1..Len(levels) : i # j => levels[i].price # levels[j].price

\* C23: every level of a snapshot carries the sum of the remaining
\* quantities of the orders resting at its price on its side; a price key
\* with an empty queue is never a level; with include_orders a level lists
\* its resting orders in queue order; the levels field is the L asked for.
C23_Content(L, include_orders, d) ==
    /\ d.levels = L
    /\ SideAgrees(d.asks, asks, include_orders)
    /\ SideAgrees(d.bids, bids, include_orders)

C23_DepthContent ==
    \A L \in 0..MaxLevels : \A include_orders \in BOOLEAN :
        C23_Content(L, include_orders, depth(Book, L, include_orders))

\* Two orders wait at one ask price next to a price key that has been
\* emptied; the snapshot shows one level with both orders and their sum.
C23_Witness ==
    /\ \E p \in DOMAIN asks : asks[p] = <<>>
    /\ \E p \in DOMAIN asks : Len(asks[p]) = 2
    /\ Len(depth(Book, 0, TRUE).asks) = 1
    /\ Len(depth(Book, 0, TRUE).asks[1].orders) = 2
    /\ depth(Book, 0, TRUE).asks[1].qty >= 2

\* ---- C24 ---------------------------------------------------------------
\* C24 (P5) as stated: when a FOK command is answered Rejected, the book
\* after the command is the book before it.
C24_FokRejectStrict ==
    \A c \in FOKCmds :
        Result(c).event.type = "Rejected" => Result(c).ob = Book

\* C24 as amended: a FOK command turned down at the admission gate leaves
\* the book as it was; one turned down for lack of liquidity (less rests
\* within its limit than it asks for) leaves the directory, both side
\* books, min_ask, max_bid, traded_volume and last_trade as they were, and
\* last_seq at the command's id.
C24_Atomic(c, r) ==
    r.event.type = "Rejected" =>
        IF AdmissionRejected(r.event)
        THEN r.ob = Book
        ELSE /\ r.event = Rejected(c.id, LIQUIDITY_NOT_AVAILABLE)
             /\ CrossingQty(c) < c.qty
             /\ r.ob = [Book EXCEPT !.last_processed_order_id = c.id]
             /\ ~r.panicked

C24_FokAtomic == \A c \in FOKCmds : C24_Atomic(c, Result(c))

\* Something rests within the limit of a FOK command, but less than it
\* asks for: the command is turned down although a part could be filled.
C24_Witness ==
    \E c \in FOKCmds :
        /\ CrossingQty(c) > 0
        /\ c.qty > CrossingQty(c)
        /\ Result(c).event = Rejected(c.id, LIQUIDITY_NOT_AVAILABLE)

\* ---- C25 ---------------------------------------------------------------
\* The order id is in no queue and not in the directory of ob.
NotResting(ob, id) ==
    /\ id \notin DOMAIN ob.arena
    /\ OccurrencesIn("Ask", ob.asks, id) = {}
    /\ OccurrencesIn("Bid", ob.bids, id) = {}

\* C25 (P6) as stated: after any IOC command, whatever its outcome, the
\* directory holds no entry with the command's id and no queue holds it.
C25_IocNeverRestsStrict == \A c \in IOCCmds : NotResting(Result(c).ob, c.id)

\* C25 as amended: after any IOC command that passes the admission gate,
\* whatever its outcome, the command's id is in no queue and not in the
\* directory; an IOC command turned down at the gate leaves the book as it
\* was, with whatever earlier order rests under that id.
C25_Gone(c, r) ==
    IF AdmissionRejected(r.event)
    THEN r.ob = Book
    ELSE /\ NotResting(r.ob, c.id)
         /\ r.panicked \/ r.event.type \in {"Rejected", "PartiallyFilled", "Filled"}

C25_IocNeverRests == \A c \in IOCCmds : C25_Gone(c, Result(c))

\* An IOC command is filled in part, and what is left of it does not rest.
C25_Witness ==
    \E c \in IOCCmds :
        /\ Result(c).event.type = "PartiallyFilled"
        /\ Result(c).event.filled_qty < c.qty
        /\ NotResting(Result(c).ob, c.id)

\* ---- C26 ---------------------------------------------------------------
\* The orders waiting in the queues of a side (empty queues add nothing).
RECURSIVE QueuedOrders(_, _)
QueuedOrders(m, S) ==
    IF S = {} THEN 0 ELSE Len(m[Min(S)]) + QueuedOrders(m, S \ {Min(S)})

OpposingOrders(side) ==
    IF side = "Bid" THEN QueuedOrders(asks, DOMAIN asks)
    ELSE QueuedOrders(bids, DOMAIN bids)

\* C26: every call of execute comes to an end (each loop of the model runs
\* over an index bounded by the length of what it walks), and the match
\* loop visits each opposing level and each resting maker at most once: the
\* fills of a command name each maker at most once, every one of them an
\* order that rested on the opposing side, the fills at one price lie next
\* to each other, and there are at most as many fills as opposing resting
\* orders before the command.
C26_Visits(c, fills) ==
    /\ \A i, j \in 1..Len(fills) : i # j => fills[i].maker_id # fills[j].maker_id
    /\ \A i \in 1..Len(fills) :
        OccurrencesIn(Not(c.side), IF c.side = "Bid" THEN asks ELSE bids,
                      fills[i].maker_id) # {}
    /\ \A i, j, k \in 1..Len(fills) :
        (i < j /\ j < k /\ fills[i].price = fills[k].price) =>
            fills[j].price = fills[i].price
    /\ Len(fills) <= OpposingOrders(c.side)

C26_Terminates(c, r) ==
    /\ r.event.type \in {"Rejected", "Open", "Cancelled", "PartiallyFilled", "Filled", "none"}
    /\ r.event.type = "none" <=> r.panicked
    /\ C26_Visits(c, r.event.fills)

C26_EachMakerOnce ==
    \A c \in MarketCmds \cup LimitCmds \cup CancelCmds : C26_Terminates(c, Result(c))

\* A Bid command takes all that is offered at two price levels: every
\* opposing maker is visited, once, and none is left.
C26_Witness ==
    \E c \in MarketCmds \cup LimitCmds :
        /\ c.side = "Bid"
        /\ OpposingOrders("Bid") = 2
        /\ Cardinality(RestingPrices(asks)) = 2
        /\ Len(Result(c).event.fills) = 2
        /\ RestingPrices(Result(c).ob.asks) = {}

\* ---- C27 ---------------------------------------------------------------
\* C27: no call of execute leaves the 64-bit word: the call does not panic
\* on an overflow, the sum of fm.price * fm.qty of the stats step does not
\* exceed u64::MAX where the build lets it wrap, qty - remaining_qty does
\* not go below zero, and no fill takes more from a maker than the maker
\* has.  r is what the call returns and m what its match produced.
C27_WithinWord(c, r, m) ==
    /\ ~r.panicked
    /\ (track_stats /\ r.event.type \in {"Filled", "PartiallyFilled"}) =>
            ~NotionalOverflows(r.event.fills)
    /\ m.remaining_qty <= c.qty
    /\ \A i \in 1..Len(m.fills) : m.fills[i].qty <= arena[m.fills[i].maker_id].qty

C27_NoArithmeticFailure ==
    \A c \in MarketCmds \cup LimitCmds :
        ~AdmissionRejects(Book, c) =>
            C27_WithinWord(c, Result(c),
                           MatchOpposite(Book, c.id, c.side, c.qty,
                                         IF c.type = "limit" THEN c.price ELSE NoneVal))

\* ---- C28 ---------------------------------------------------------------
\* The grammar of the text form: id,user_id,<type>,side,qty for a market
\* command, with a price after it for limit, ioc and fok, and id,cancel.
WellFormed(fields) ==
    \/ /\ Len(fields) = 2
       /\ fields[2] = "cancel"
       /\ IsU64(fields[1])
    \/ /\ Len(fields) = 5
       /\ fields[3] = "market"
       /\ IsU64(fields[1]) /\ IsU64(fields[2]) /\ IsSide(fields[4]) /\ IsU64(fields[5])
    \/ /\ Len(fields) = 6
       /\ fields[3] \in {"limit", "ioc", "fok"}
       /\ IsU64(fields[1]) /\ IsU64(fields[2]) /\ IsSide(fields[4])
       /\ IsU64(fields[5]) /\ IsU64(fields[6])

\* C28: parsing a line that is not of the grammar (a field count that does
\* not match its type, an integer field that does not parse, an unknown
\* type or side) returns a parse error: it neither panics nor returns a
\* command.
C28_ParseErrors ==
    (parsed # NotParsed /\ ~WellFormed(input)) => parsed.kind = "Err"

\* ---- C29 ---------------------------------------------------------------
\* The opposing side of the book as a command of this side finds it.
OpposingSide(side) == IF side = "Bid" THEN asks ELSE bids

\* The quantity of the fills before the i-th.
FilledBefore(fills, i) == SumFillQty(SubSeq(fills, 1, i - 1), 1)

\* C29: each fill of the match loop names the command as taker (id and
\* side) and an order resting on the opposing side as maker, carries the
\* price of the maker's level, trades the smaller of what the command still
\* wants and what the maker has, and is a total fill exactly when it
\* trades all the maker had before the command.  f is the fill, remaining
\* what the command wanted when the loop came to the maker.
C29_Fill(c, f, remaining) ==
    /\ f.taker_id = c.id
    /\ f.taker_side = c.side
    /\ f.maker_id \in DOMAIN arena
    /\ f.price \in DOMAIN OpposingSide(c.side)
    /\ Position(OpposingSide(c.side)[f.price], f.maker_id) # 0
    /\ f.price = arena[f.maker_id].price
    /\ f.qty = Min({remaining, arena[f.maker_id].qty})
    /\ f.qty > 0
    /\ f.total_fill <=> f.qty = arena[f.maker_id].qty

C29_Fills(c, fills) ==
    \A i \in 1..Len(fills) : C29_Fill(c, fills[i], c.qty - FilledBefore(fills, i))

C29_FillConstruction ==
    /\ \A c \in MarketCmds :
        C29_Fills(c, MatchOpposite(Book, c.id, c.side, c.qty, NoneVal).fills)
    /\ \A c \in LimitCmds :
        C29_Fills(c, MatchOpposite(Book, c.id, c.side, c.qty, c.price).fills)

\* A command takes all of a first maker and a part of a second one.
C29_TotalThenPartial(fills) ==
    /\ Len(fills) = 2
    /\ fills[1].total_fill
    /\ ~fills[2].total_fill
    /\ fills[2].qty < arena[fills[2].maker_id].qty

C29_Witness ==
    \E c \in LimitCmds :
        /\ ~AdmissionRejects(Book, c)
        /\ C29_TotalThenPartial(Result(c).event.fills)

\* ---- C30 ---------------------------------------------------------------
\* The maker of fill f after the command, in the book ob it left: a maker
\* filled in part is in the directory with its quantity lowered by the
\* fill's, and at place `place` of its queue.
C30_Partial(c, f, ob, place) ==
    /\ f.maker_id \in DOMAIN ob.arena
    /\ ob.arena[f.maker_id].qty = arena[f.maker_id].qty - f.qty
    /\ Position(QueueAt(ob, Not(c.side), f.price), f.maker_id) = place

\* C30 as stated: a maker filled totally is in no queue and not in the
\* directory; a maker filled in part is in the directory, its quantity
\* lowered by the fill's, at the queue position it had before the command.
C30_MakerStrict(c, f, ob) ==
    IF f.total_fill
    THEN NotResting(ob, f.maker_id)
    ELSE C30_Partial(c, f, ob,
                     Position(QueueAt(Book, Not(c.side), f.price), f.maker_id))

C30_AfterStrict(c, fills, ob) ==
    \A i \in 1..Len(fills) : C30_MakerStrict(c, fills[i], ob)

C30_FinalisationStrict ==
    /\ \A c \in MarketCmds :
        ~AdmissionRejects(Book, c) =>
            C30_AfterStrict(c, MatchOpposite(Book, c.id, c.side, c.qty, NoneVal).fills,
                            Result(c).ob)
    /\ \A c \in LimitCmds :
        ~AdmissionRejects(Book, c) =>
            C30_AfterStrict(c, MatchOpposite(Book, c.id, c.side, c.qty, c.price).fills,
                            Result(c).ob)

\* The queue q from the place of id on: id and the orders behind it.
FromPlaceOf(q, id) == SubSeq(q, Position(q, id), Len(q))

\* C30 as amended: a maker filled totally is in no queue and not in the
\* directory; a maker filled in part is in the directory, its quantity
\* lowered by the fill's, and at the head of its queue with the orders
\* that were behind it still behind it in the same order: the makers that
\* were ahead of it were filled totally and are gone.
C30_Maker(c, f, ob) ==
    IF f.total_fill
    THEN NotResting(ob, f.maker_id)
    ELSE /\ C30_Partial(c, f, ob, 1)
         /\ QueueAt(ob, Not(c.side), f.price)
                = FromPlaceOf(QueueAt(Book, Not(c.side), f.price), f.maker_id)

C30_After(c, fills, ob) ==
    \A i \in 1..Len(fills) : C30_Maker(c, fills[i], ob)

C30_Finalisation ==
    /\ \A c \in MarketCmds :
        ~AdmissionRejects(Book, c) =>
            C30_After(c, MatchOpposite(Book, c.id, c.side, c.qty, NoneVal).fills,
                      Result(c).ob)
    /\ \A c \in LimitCmds :
        ~AdmissionRejects(Book, c) =>
            C30_After(c, MatchOpposite(Book, c.id, c.side, c.qty, c.price).fills,
                      Result(c).ob)

\* A command takes all of the first maker of a queue and a part of the
\* second, which is the head of the queue afterwards.
C30_HeadTakenNextCut(c, fills, ob) ==
    /\ Len(fills) = 2
    /\ fills[1].total_fill
    /\ ~fills[2].total_fill
    /\ fills[1].price = fills[2].price
    /\ Position(QueueAt(Book, Not(c.side), fills[2].price), fills[2].maker_id) = 2
    /\ Position(QueueAt(ob, Not(c.side), fills[2].price), fills[2].maker_id) = 1
    /\ fills[1].maker_id \notin DOMAIN ob.arena
    /\ ob.arena[fills[2].maker_id].qty = 1

C30_Witness ==
    \E c \in MarketCmds :
        /\ ~AdmissionRejects(Book, c)
        /\ C30_HeadTakenNextCut(c, Result(c).event.fills, Result(c).ob)

\* ---- C31 ---------------------------------------------------------------
\* The ids of a queue rise strictly from head to tail.
Ascending(q) == \A i, j \in 1..Len(q) : i < j => q[i] < q[j]

AscendingQueues(m) == \A p \in DOMAIN m : Ascending(m[p])

\* Finalisation from fill i on, in the book ob it has reached: for each
\* totally filled maker the binary search over the maker's queue returns
\* the place where the maker is.
RECURSIVE FinalizeFinds(_, _, _)
FinalizeFinds(ob, fills, i) ==
    IF i > Len(fills) THEN TRUE
    ELSE /\ fills[i].total_fill =>
                /\ binary_search(QueueAt(ob, Not(fills[i].taker_side), fills[i].price),
                                 fills[i].maker_id) # 0
                /\ binary_search(QueueAt(ob, Not(fills[i].taker_side), fills[i].price),
                                 fills[i].maker_id)
                     = Position(QueueAt(ob, Not(fills[i].taker_side), fills[i].price),
                                fills[i].maker_id)
         /\ FinalizeFinds(FinalizeFill(ob, fills[i]), fills, i + 1)

\* C31: in every reachable state the ids of every price-level queue are
\* strictly ascending, and the binary search of finalisation finds every
\* totally filled maker of every command in its queue, so that it is
\* removed from it.
C31_AscendingQueues ==
    /\ AscendingQueues(asks)
    /\ AscendingQueues(bids)
    /\ \A c \in MarketCmds :
        FinalizeFinds(Book, MatchOpposite(Book, c.id, c.side, c.qty, NoneVal).fills, 1)
    /\ \A c \in LimitCmds :
        FinalizeFinds(Book, MatchOpposite(Book, c.id, c.side, c.qty, c.price).fills, 1)

\* Two orders wait in one queue, and a command fills the second of them
\* totally after the first.
C31_BothTaken(q, fills) ==
    /\ Len(q) = 2
    /\ Len(fills) = 2
    /\ fills[1].maker_id = q[1] /\ fills[1].total_fill
    /\ fills[2].maker_id = q[2] /\ fills[2].total_fill

C31_Witness ==
    \E p \in DOMAIN bids : \E c \in MarketCmds :
        /\ ~AdmissionRejects(Book, c)
        /\ C31_BothTaken(bids[p], Result(c).event.fills)
        /\ QueueAt(Result(c).ob, "Bid", p) = <<>>

\* ---- C32 ---------------------------------------------------------------
\* A Limit command that passes the gate and puts a residual to rest calls
\* the directory insert with an id the directory does not hold.
C32_InsertIsNew(c, m) ==
    (~AdmissionRejects(Book, c) /\ m.remaining_qty > 0) => c.id \notin DOMAIN arena

C32_NoDuplicateInsert ==
    \A c \in LimitCmds :
        C32_InsertIsNew(c, MatchOpposite(Book, c.id, c.side, c.qty, c.price))

\* Every id the directory holds has passed the gate: none is above the
\* latest id accepted.
C32_HeldWereAccepted == \A id \in DOMAIN arena : id <= last_processed_order_id

\* A step that brings an id into the directory brings one that is above
\* every id accepted before the step, and never lowers the latest id
\* accepted.
C32_EntersAbove ==
    /\ last_processed_order_id' >= last_processed_order_id
    /\ \A id \in DOMAIN arena' \ DOMAIN arena : id > last_processed_order_id

\* C32: the directory insert is never performed for an id the directory
\* holds, and an id that has left the directory never enters it again:
\* every id that is or was in the directory is at most the latest accepted
\* id, which never falls, and an id that enters is above it.
C32_NoResurrection ==
    /\ [](C32_NoDuplicateInsert /\ C32_HeldWereAccepted)
    /\ [][C32_EntersAbove]_vars

\* An order has traded and left the directory, which is empty, and a Limit
\* command brings a new id into it.
C32_Witness ==
    /\ track_stats
    /\ traded_volume > 0
    /\ DOMAIN arena = {}
    /\ \E c \in LimitCmds :
        /\ Result(c).event = Open(c.id)
        /\ c.id \in DOMAIN Result(c).ob.arena

\* ---- C33 ---------------------------------------------------------------
\* The price keys of the side a command of this side rests on, and the
\* same for its own side, in the book ob.
KeysOf(ob, side) == IF side = "Bid" THEN DOMAIN ob.bids ELSE DOMAIN ob.asks

\* A command leaves the keys of the opposing side as they were, whatever it
\* matched there, and adds to its own side at most the key of its price,
\* and that only for an order it puts to rest there.
C33_KeysAfter(c, ob) ==
    /\ KeysOf(ob, Not(c.side)) = KeysOf(Book, Not(c.side))
    /\ KeysOf(Book, c.side) \subseteq KeysOf(ob, c.side)
    /\ \A p \in KeysOf(ob, c.side) \ KeysOf(Book, c.side) :
            /\ c.type = "limit"
            /\ p = c.price
            /\ QueueAt(ob, c.side, p) = <<c.id>>

\* Matching passes over the empty queues: a Market command for a quantity
\* is filled whenever any order rests on the opposing side.
C33_SkipsEmpty(c, m) ==
    (c.qty > 0 /\ OpposingQty(c.side) > 0) => m.fills # <<>>

C33_Commands ==
    /\ \A c \in MarketCmds \cup LimitCmds : C33_KeysAfter(c, Result(c).ob)
    /\ \A c \in MarketCmds :
        C33_SkipsEmpty(c, MatchOpposite(Book, c.id, c.side, c.qty, NoneVal))

\* No step takes a price key from either side.
C33_KeysStay ==
    /\ DOMAIN asks \subseteq DOMAIN asks'
    /\ DOMAIN bids \subseteq DOMAIN bids'

\* C33: a price key, once a resting order has created it on a side, stays
\* in that side's map whatever becomes of its queue; matching passes over
\* empty queues; matching and finalisation create no price key: the only
\* new key is that of a Limit order put to rest, on its own side.
C33_EmptyLevelsPersist == []C33_Commands /\ [][C33_KeysStay]_vars

\* The asks hold an empty queue at a price below a price where an order
\* rests, and a Market bid is filled by that order, the empty queue and
\* its key staying where they are.
C33_PassesEmpty(p, q, c, r) ==
    /\ r.event.type \in {"Filled", "PartiallyFilled"}
    /\ r.event.fills[1].price = q
    /\ p \in DOMAIN r.ob.asks
    /\ r.ob.asks[p] = <<>>
    /\ r.ob.asks[q] = <<>>

C33_Witness ==
    \E p, q \in DOMAIN asks :
        /\ p < q
        /\ asks[p] = <<>>
        /\ asks[q] # <<>>
        /\ \E c \in MarketCmds : c.side = "Bid" /\ C33_PassesEmpty(p, q, c, Result(c))

\* ---- C34 ---------------------------------------------------------------
\* C34: every Filled or PartiallyFilled event that _execute hands to the
\* stats step carries at least one fill, each of its fills trades a
\* quantity above zero, and its filled_qty is the sum of the fills and
\* above zero: fills.last() is there and the division by filled_qty is by
\* a number other than zero.
C34_Carries(e) ==
    e.type \in {"Filled", "PartiallyFilled"} =>
        /\ Len(e.fills) >= 1
        /\ \A i \in 1..Len(e.fills) : e.fills[i].qty > 0
        /\ e.filled_qty = SumFillQty(e.fills, 1)
        /\ e.filled_qty > 0

C34_NonEmptyFills ==
    \A c \in MarketCmds \cup LimitCmds \cup CancelCmds :
        ~AdmissionRejects(Book, c) => C34_Carries(_execute(Admit(Book, c), c).event)

\* With stats on, a command is answered Filled with two fills, and the
\* stats step records the last of them.
C34_Recorded(r) ==
    /\ r.event.type = "Filled"
    /\ Len(r.event.fills) = 2
    /\ r.ob.last_trade.some
    /\ r.ob.last_trade.last_qty = r.event.fills[2].qty
    /\ r.ob.last_trade.total_qty = r.event.fills[1].qty + r.event.fills[2].qty

C34_Witness ==
    /\ track_stats
    /\ \E c \in MarketCmds \cup LimitCmds : C34_Recorded(Result(c))

\* ---- C35 ---------------------------------------------------------------
\* The book is as the constructor left it.
Fresh == Constructed(new(DEFAULT_ARENA_CAPACITY, DEFAULT_QUEUE_CAPACITY, track_stats))

\* A command with id 0 is turned down at the gate and changes nothing.
C35_ZeroRejected(c, r) ==
    /\ r.event = Rejected(0, INVALID_ORDER_NUMBER)
    /\ r.ob = Book
    /\ ~r.panicked

\* The crate example: r0 is what a command with id 0 returned; the Limit
\* command l with id 1 that follows is accepted and rests.
C35_ThenOne(r0, l) ==
    /\ execute(r0.ob, track_stats, l).event = Open(1)
    /\ execute(r0.ob, track_stats, l).ob.last_processed_order_id = 1

C35_Example(c, l) ==
    /\ Result(c).event = Rejected(0, INVALID_ORDER_NUMBER)
    /\ C35_ThenOne(Result(c), l)
    /\ 1 \in DOMAIN execute(Result(c).ob, track_stats, l).ob.arena

WithinLimit(side, price) ==
    IF side = "Bid" THEN {p \in Prices : p <= price} ELSE {p \in Prices : p >= price}

\* The opposing side of ob holds no resting order at a price of S.
NothingOpposite(ob, side, S) ==
    RestingPrices(IF side = "Bid" THEN ob.asks ELSE ob.bids) \cap S = {}

\* m is what the match produced, ob the book the command left, S the
\* prices the command was ready to trade at.
C36_Exhausted(c, m, ob, S) ==
    (~AdmissionRejects(Book, c) /\ m.remaining_qty > 0) => NothingOpposite(ob, c.side, S)

\* C36: an accepted Market command that ends with quantity unmatched
\* leaves no order resting on the opposing side; an accepted Limit command
\* that ends with a residual leaves no opposing order resting at its limit
\* price or better.
C36_ExhaustiveMatching ==
    /\ \A c \in MarketCmds :
        C36_Exhausted(c, MatchOpposite(Book, c.id, c.side, c.qty, NoneVal),
                      Result(c).ob, Prices)
    /\ \A c \in LimitCmds :
        C36_Exhausted(c, MatchOpposite(Book, c.id, c.side, c.qty, c.price),
                      Result(c).ob, WithinLimit(c.side, c.price))

\* One unit is offered, below the highest price: a Limit bid above the
\* offer for two units takes it at the offer's price and rests its
\* residual, a Market bid for two units takes it and has one unit left
\* unmatched, and either leaves the asks without a resting order.
C36_LimitRests(c, r) ==
    /\ c.side = "Bid"
    /\ c.price > min_ask
    /\ r.event.type = "PartiallyFilled"
    /\ r.event.fills[1].price = min_ask
    /\ c.id \in DOMAIN r.ob.arena
    /\ RestingPrices(r.ob.asks) = {}

C36_MarketEmpties(c, r) ==
    /\ c.side = "Bid"
    /\ r.event.type = "PartiallyFilled"
    /\ r.event.filled_qty < c.qty
    /\ RestingPrices(r.ob.asks) = {}

C36_Witness ==
    /\ OpposingQty("Bid") = 1
    /\ min_ask < U64_MAX
    /\ \E c \in LimitCmds : C36_LimitRests(c, Result(c))
    /\ \E c \in MarketCmds : C36_MarketEmpties(c, Result(c))

\* ---- C37 ---------------------------------------------------------------
\* The side of ob a command of this side rests on, and the one it trades
\* against.
OwnLevels(ob, side) == IF side = "Bid" THEN ob.bids ELSE ob.asks
OppositeLevels(ob, side) == IF side = "Bid" THEN ob.asks ELSE ob.bids

\* The quantity resting on a side of ob.
SideQty(ob, m) == SumLevels(ob.arena, m, DOMAIN m)

\* The ids waiting in the queues of a side.
QueuedIds(m) == UNION {{m[p][i] : i \in 1..Len(m[p])} : p \in DOMAIN m}

\* The orders that rested on the command's own side are where they were
\* and as they were: each queue of before heads the queue of after, with
\* nothing but the command's own id behind it, and the directory entries
\* are the same.
C37_OwnSideKept(c, ob) ==
    /\ \A p \in DOMAIN OwnLevels(Book, c.side) :
        /\ p \in DOMAIN OwnLevels(ob, c.side)
        /\ OwnLevels(ob, c.side)[p] \in
                {OwnLevels(Book, c.side)[p], Append(OwnLevels(Book, c.side)[p], c.id)}
    /\ \A id \in QueuedIds(OwnLevels(Book, c.side)) :
        id \in DOMAIN ob.arena /\ ob.arena[id] = arena[id]

\* e is the event _execute produced for c and ob the book the call left.
C37_Conserved(c, e, ob) ==
    /\ SideQty(ob, OppositeLevels(ob, c.side))
            = SideQty(Book, OppositeLevels(Book, c.side)) - e.filled_qty
    /\ C37_OwnSideKept(c, ob)
    /\ SideQty(ob, OwnLevels(ob, c.side))
            = SideQty(Book, OwnLevels(Book, c.side))
              + (IF c.type = "limit" THEN c.qty - e.filled_qty ELSE 0)
    /\ c.type = "market" => c.id \notin DOMAIN ob.arena
    /\ c.type = "limit" =>
            (c.id \in DOMAIN ob.arena <=> c.qty - e.filled_qty > 0)

\* C37: for every accepted Market or Limit command the quantity resting on
\* the opposing side falls by exactly the filled quantity of the command's
\* event, the orders that rested on the command's own side are unchanged,
\* and that side gains exactly qty - filled_qty for a Limit command and
\* nothing for a Market command, which never enters the directory.
C37_QuantityConservation ==
    \A c \in MarketCmds \cup LimitCmds :
        ~AdmissionRejects(Book, c) =>
            C37_Conserved(c, _execute(Admit(Book, c), c).event, Result(c).ob)

\* Orders rest on both sides; a Limit ask for two units sells one of them
\* to the resting bid and rests the other behind the resting ask's side.
C37_SplitsInTwo(c, r) ==
    /\ c.side = "Ask"
    /\ c.qty = 2
    /\ r.event.type = "PartiallyFilled"
    /\ r.event.filled_qty = 1
    /\ c.id \in DOMAIN r.ob.arena
    /\ r.ob.arena[c.id].qty = 1
    /\ SideQty(r.ob, r.ob.asks) = SideQty(Book, asks) + 1

C37_Witness ==
    /\ HasRestingAsk
    /\ HasRestingBid
    /\ \E c \in LimitCmds : C37_SplitsInTwo(c, Result(c))

\* ---- C38 ---------------------------------------------------------------
\* The fills that are not total fills.
PartialFills(fills) == {i \in 1..Len(fills) : ~fills[i].total_fill}

\* C38: in the fills of one command every fill but the last is a total
\* fill, so that a command leaves at most one maker filled in part, and
\* that maker is the one its last fill names.
C38_OnlyLastPartial(fills) ==
    /\ \A i \in 1..Len(fills) : i < Len(fills) => fills[i].total_fill
    /\ Cardinality(PartialFills(fills)) <= 1
    /\ PartialFills(fills) \subseteq {Len(fills)}

C38_AtMostOnePartial ==
    /\ \A c \in MarketCmds :
        C38_OnlyLastPartial(MatchOpposite(Book, c.id, c.side, c.qty, NoneVal).fills)
    /\ \A c \in LimitCmds :
        C38_OnlyLastPartial(MatchOpposite(Book, c.id, c.side, c.qty, c.price).fills)

\* A Market ask is filled by two bids at two prices, the better one whole
\* and the other in part; the one filled in part is all that rests on the
\* bid side afterwards.
C38_LastCut(c, r) ==
    /\ c.side = "Ask"
    /\ r.event.type = "Filled"
    /\ Len(r.event.fills) = 2
    /\ r.event.fills[1].price > r.event.fills[2].price
    /\ PartialFills(r.event.fills) = {2}
    /\ QueuedIds(r.ob.bids) = {r.event.fills[2].maker_id}

C38_Witness == \E c \in MarketCmds : C38_LastCut(c, Result(c))

\* ---- C39 ---------------------------------------------------------------
\* The queue (side and price) in which id waits in the levels m of a side:
\* the prices at which it is queued.
QueuedAt(m, id) == {p \in DOMAIN m : Position(m[p], id) # 0}

\* a waits ahead of b in a queue of m.
Ahead(m, a, b) ==
    \E p \in DOMAIN m :
        /\ Position(m[p], a) # 0
        /\ Position(m[p], b) # 0
        /\ Position(m[p], a) < Position(m[p], b)

\* A step leaves every order that stays in the directory at its price, in
\* its queue and with its owner, and with no more quantity than it had.
C39_OrderStable ==
    \A id \in DOMAIN arena \cap DOMAIN arena' :
        /\ arena'[id].price = arena[id].price
        /\ arena'[id].user_id = arena[id].user_id
        /\ arena'[id].qty <= arena[id].qty
        /\ QueuedAt(asks', id) = QueuedAt(asks, id)
        /\ QueuedAt(bids', id) = QueuedAt(bids, id)

\* A step leaves two orders that stay in the directory in the order in
\* which they waited.
C39_TurnsKept ==
    \A a, b \in DOMAIN arena \cap DOMAIN arena' :
        /\ Ahead(asks, a, b) => Ahead(asks', a, b)
        /\ Ahead(bids, a, b) => Ahead(bids', a, b)

\* C39: for as long as an order stays in the directory its price never
\* changes, its remaining quantity never grows, and any two orders resting
\* in one queue keep their order.
C39_RestingStability == [][C39_OrderStable /\ C39_TurnsKept]_vars

\* Two bids wait in one queue, the first for two units: a Market ask for
\* one unit cuts the first, and both stay in their queue, in their order
\* and at their price.
C39_CutKeeps(q, ob, p) ==
    /\ ob.bids[p] = q
    /\ ob.arena[q[1]].qty = arena[q[1]].qty - 1
    /\ ob.arena[q[1]].price = p
    /\ ob.arena[q[2]] = arena[q[2]]

C39_Witness ==
    \E p \in DOMAIN bids :
        /\ Len(bids[p]) = 2
        /\ arena[bids[p][1]].qty = 2
        /\ \E c \in MarketCmds :
            /\ Result(c).event.type = "Filled"
            /\ C39_CutKeeps(bids[p], Result(c).ob, p)

\* ---- C40 ---------------------------------------------------------------
\* C40: in every reachable state min_ask >= max_bid, so that spread()
\* subtracts without going below zero, whatever the build, and the spread
\* of a book on which nothing rests is u64::MAX.
C40_SpreadNeverUnderflows ==
    /\ min_ask >= max_bid
    /\ ~spread(Book).underflow
    /\ ~spread(Book).panicked
    /\ (~HasRestingAsk /\ ~HasRestingBid) => spread(Book).value = Word(U64_MAX)

\* The nearest the two cached prices come: bids have rested and gone, an
\* ask rests at price 0, and the spread is 0.
C40_Witness ==
    /\ DOMAIN bids # {}
    /\ ~HasRestingBid
    /\ HasRestingAsk
    /\ min_ask = 0
    /\ spread(Book) = [panicked |-> FALSE, underflow |-> FALSE, value |-> Word(0)]

====
